---- MODULE Spec2Model ----
(***************************************************************************)
(* The streaming-and-overlay client of the PPE detection dashboard: the    *)
(* live camera tile (LiveCameraTile.tsx), the upload tile (VideoTile, in   *)
(* Sidebar.tsx), the protocol client (wsClient.ts) and the session         *)
(* registry (streamSession.ts), as one state machine for one camera id.    *)
(*                                                                         *)
(* Time is in milliseconds and measured from the present: `now` stands for *)
(* both Date.now() and performance.now() and is the origin of the axis, a  *)
(* stored timestamp is the (negative) offset of its instant from the       *)
(* present, and the passing of d milliseconds moves every stored timestamp *)
(* d further into the past.  A timestamp older than every threshold it is  *)
(* compared with stays at that horizon; the initial timestamps of the refs *)
(* (0, the time origin of the page) are such timestamps.                   *)
(***************************************************************************)
EXTENDS Integers, FiniteSets, Sequences, TLC

\* ------------------------------------------------------------------------
\* Program constants
\* ------------------------------------------------------------------------
SEND_INTERVAL_MS == 200
BUFFER_CEILING == 256000
COOLDOWN_MS == 8000
FALL_TRUE_THRESHOLD == 2
FALL_FALSE_RESET == 3
RECONNECT_DELAY_MS == 600
UPLOAD_START_DELAY_MS == 100
STICKY_MS == 600
ALARM_CEILING_MS == 10000
LOG_INTERVAL_MS == 1500
BEEP_INTERVAL_MS == 600
BEEP_MS == 500

\* ------------------------------------------------------------------------
\* Bounds of the model
\* ------------------------------------------------------------------------
\* WebSocket objects alive at once (an object is reusable once it is CLOSED and
\* nothing references it).
MaxSockets == 2
\* frameLoop chains alive at once.
MaxLoops == 1
\* Pending timers alive at once.
MaxTimers == 1
\* startLive invocations suspended at once.
MaxStarts == 2
\* Device streams that exist at once.
MaxStreams == 2
MaxCams == 2
MaxMedia == 3
\* acknowledge requests in flight at once.
MaxAcks == 1
\* stop requests of the upload tile in flight at once.
MaxStops == 1
\* Cap of the fall counters (the guards of the reply stop counting there).
MaxCount == 3
MaxTwinCount == 4
\* Unanswered frames one socket can carry (the guard of ws.send stops there).
MaxInflight == 2

Sockets == 1..MaxSockets
Loops == 1..MaxLoops
Timers == 1..MaxTimers
Starts == 1..MaxStarts
Streams == 1..MaxStreams
Cams == 1..MaxCams
MediaIds == 1..MaxMedia

\* Clock steps: the lifecycle specification advances by TickSteps, the
\* fall-alert specification by FallSteps.
TickSteps == {200}
FallSteps == {1000, 7100}

\* Sizes in bytes of an encoded frame.
FrameSizes == {256000}

\* The dimensions of the decoded media, and of the overlay canvas of a tile
\* (the tile is 16:9, the canvas has the size of the <video> box).
DecodedSize == <<1920, 1080>>
TileCanvas == <<800, 450>>

VARIABLES
  mode,             \* "live" (LiveCameraTile) or "upload" (VideoTile)
  mounted,          \* the component's effects are mounted
  tokenOk,          \* getToken() returns a token that is not expired
  \* refs of the tile
  shouldRun,        \* shouldRunRef
  awaitingResult,   \* awaitingResultRef
  lastSentAt,       \* lastSentAtRef
  wsRef,            \* wsRef: a socket, or 0 for null
  rafRef,           \* rafRef: a loop chain's pending callback, or 0 for null
  fallTrueCount,    \* fallTrueCountRef
  fallFalseCount,   \* fallFalseCountRef
  acknowledgedFall, \* acknowledgedFallRef
  lastPopupAt,      \* lastPopupAtRef
  showAlertRef,     \* showAlertRef
  mediaRef,         \* mediaRef (live): a stream, or 0 for null
  reconnectTimerRef,\* reconnectTimerRef (upload): a timer, or 0 for null
  runningRef,       \* runningRef (upload)
  \* React state of the tile
  running,
  showAlert,
  metadata,         \* latest metadata: "null", or the reply's fall_detected
  error,            \* live: an error message is shown
  videoUrl,         \* upload: an object URL, or 0 for null
  \* runtime objects
  sockets,          \* the WebSocket objects
  loops,            \* the frameLoop chains
  timers,           \* the pending window timers
  starts,           \* the suspended startLive invocations
  upload,           \* the upload tile's onUpload invocation awaiting its POST
  acks,             \* the acknowledgeFall invocations awaiting their POST
  stops,            \* the upload tile's stop invocations awaiting their POST
  \* the session registry and the media
  liveSession,      \* liveSessions.get(camId): a record, or NoSession
  uploadSession,    \* uploadSessions.get(camId): a record, or NoSession
  activeStreams,    \* device streams whose tracks are live
  \* the media and the overlay (MetadataRenderer)
  mediaSize,        \* videoWidth x videoHeight the <video> reports for its source
  canvasSize,       \* width x height of the overlay canvas
  dets,             \* metadata.dets of the latest metadata: a set of boxes
  frameSize,        \* its frame_width x frame_height, Absent where the reply has none
  stickyDets,       \* stickyDetsRef
  stickyAt,         \* stickyAtRef
  painted,          \* the rectangles the last draw() stroked on the canvas
  \* history (not program state)
  raisedAt,         \* time of the last alert raise
  ackedAt,          \* time of the last completed acknowledgment
  stopped,          \* Stop or unmount ran and the operator has not started since
  malformed,        \* how the last message delivered was malformed, or "none"
  \* object URLs
  liveUrls,         \* object URLs created and not revoked
  uploadFailed,     \* how the last upload POST failed ("status", "rejected"), or "no"
  \* the audio cue of the alert (FallAlert)
  seenVisible,      \* the value of visible at the last run of FallAlert's effect
  audio,            \* the Audio element: "none", "pending" (play() not settled), "playing"
  audioDue,         \* ms until the effect's timeout fires, or NoDue
  beeper,           \* the interval of startContinuousAlarm
  beepLeft,         \* ms the oscillator of the last playAlarmSound still sounds
  shownAge,         \* history: ms since the alert became visible, or NoDue
  \* the session registry over several camera ids (streamSession.ts)
  liveSessions,     \* the Map liveSessions: camera id -> entry
  uploadSessions,   \* the Map uploadSessions: camera id -> entry
  tracks,           \* the MediaStreams whose tracks are live
  objectUrls,       \* the object URLs created and not revoked
  \* the metadata handlers side by side, and the log
  twin,             \* handler -> the fall-alert state the handler works on
  lastLabelAt,      \* lastLabelAtRef: label -> time it was last logged
  loggedAt,         \* history: label -> the last addLog for it
  lastReply,        \* history: the reply the log loop ran on last
  halted            \* history: the operator's last command to the tile was Stop

refs == <<shouldRun, awaitingResult, lastSentAt, wsRef, rafRef, mediaRef,
          reconnectTimerRef, runningRef>>
fallRefs == <<fallTrueCount, fallFalseCount, acknowledgedFall, lastPopupAt,
              showAlertRef>>
ui == <<running, showAlert, metadata, error, videoUrl>>
runtime == <<sockets, loops, timers, starts, upload, acks, stops>>
registry == <<liveSession, uploadSession, activeStreams>>
history == <<raisedAt, ackedAt, stopped>>
env == <<mode, mounted, tokenOk>>
media == <<mediaSize, canvasSize>>
overlay == <<dets, frameSize, stickyDets, stickyAt, painted>>
urls == <<liveUrls, uploadFailed>>
alarm == <<seenVisible, audio, audioDue, beeper, beepLeft, shownAge>>
cams == <<liveSessions, uploadSessions, tracks, objectUrls>>
logs == <<twin, lastLabelAt, loggedAt, lastReply>>
scene == <<media, overlay, malformed, urls, alarm, cams, logs, halted>>
vars == <<env, refs, fallRefs, ui, runtime, registry, history, scene>>

\* A width x height pair; NoSize stands for zero dimensions.
NoSize == <<0, 0>>

\* A frame_width or frame_height that is null or missing in the reply, and
\* the frame size of a reply that has neither.
Absent == 0 - 1
NoFrame == <<Absent, Absent>>
IsZero(size) == size[1] = 0 \/ size[2] = 0

NoSession == [stream |-> 0, videoUrl |-> 0, autoStart |-> FALSE, present |-> FALSE]

\* A WebSocket object.  st is its readyState; an object that was never created
\* is a CLOSED one that nothing references.  inflight counts the frames
\* transmitted on it and not yet answered; buffered is its bufferedAmount.
NoSocket == [st |-> "CLOSED", inflight |-> 0, buffered |-> 0]
NewSocket == [st |-> "CONNECTING", inflight |-> 0, buffered |-> 0]

\* A frameLoop chain: "raf" has a requestAnimationFrame callback pending,
\* "encoding" is suspended inside sendCanvasFrame holding the socket ws.
NoLoop == [pc |-> "idle", ws |-> 0]

NoTimer == [kind |-> "none", due |-> 0]
NoStart == [pc |-> "idle", stream |-> 0]
\* onUpload while it awaits the POST: hadUrl is the videoUrl of its closure.
NoUpload == [pc |-> "idle", hadUrl |-> FALSE]

Min(a, b) == IF a < b THEN a ELSE b
Max(a, b) == IF a > b THEN a ELSE b

\* ------------------------------------------------------------------------
\* Time
\* ------------------------------------------------------------------------
\* Date.now() and performance.now(): the present, the origin of the axis.
now == 0
\* Ages beyond which a timestamp is older than every threshold it meets.
SentHorizon == SEND_INTERVAL_MS
PopupHorizon == COOLDOWN_MS + 200
\* The timestamp t once d more milliseconds have passed.
Labels == {"person", "no-helmet"}
MaxDets == 2
LogHorizon == LOG_INTERVAL_MS + 1000
\* A label no addLog was made for: at is the time of the last addLog, gap the
\* time between the last two, same whether one instance made both.
NeverLogged == [at |-> now - LogHorizon, gap |-> LogHorizon, same |-> TRUE]
\* No reply in the present millisecond; seq alternates with every reply, warm
\* is whether time has passed since the instance was created.
NoReply == [events |-> <<>>, dets |-> <<>>, logged |-> {}, seq |-> 0, warm |-> TRUE]
Earlier(t, d, horizon) == Max(t - d, now - horizon)
\* The due time of a timer once d more milliseconds have passed (a timer is
\* ripe when its due time is not after the present).
DueAfter(due, d) == Max(due - d, now)

\* ------------------------------------------------------------------------
\* Object pools
\* ------------------------------------------------------------------------
\* A WebSocket object can be reused once it is CLOSED and neither wsRef nor a
\* suspended sendCanvasFrame holds it.
FreeSockets ==
  {s \in Sockets : /\ sockets[s].st = "CLOSED"
                   /\ wsRef # s
                   /\ \A i \in Loops : loops[i].ws # s}
FreeLoops == {i \in Loops : loops[i].pc = "idle"}
\* A timer slot can be reused once its timer fired or was cleared, unless
\* reconnectTimerRef still holds its id.
FreeTimers == {t \in Timers : timers[t].kind = "none" /\ reconnectTimerRef # t}
FreeStarts == {k \in Starts : starts[k].pc = "idle"}
FreeStreams ==
  {m \in Streams : /\ m \notin activeStreams
                   /\ mediaRef # m
                   /\ liveSession.stream # m
                   /\ \A k \in Starts : starts[k].stream # m}

Lowest(S) == CHOOSE x \in S : \A y \in S : x <= y

\* videoRef.current and captureCanvasRef.current: the live tile always renders
\* its <video>, the upload tile only while videoUrl is set.
VideoPresent == mounted /\ (mode = "upload" => videoUrl # 0)
CanvasPresent == mounted

\* ------------------------------------------------------------------------
\* WebSocket (browser) operations
\* ------------------------------------------------------------------------
\* ws.close(): CONNECTING or OPEN becomes CLOSING, and the frames not yet
\* answered are lost with the connection; CLOSING and CLOSED stay.
CloseSocket(socks, s) ==
  IF s # 0 /\ socks[s].st \in {"CONNECTING", "OPEN"}
    THEN [socks EXCEPT ![s] = [st |-> "CLOSING", inflight |-> 0, buffered |-> 0]]
    ELSE socks

\* ws.send(buffer): transmits on an OPEN socket; on a CLOSING or CLOSED one the
\* data is discarded without an exception.
SendOn(socks, s, size) ==
  IF socks[s].st = "OPEN"
    THEN [socks EXCEPT ![s].inflight = @ + 1, ![s].buffered = @ + size]
    ELSE socks

\* cancelAnimationFrame(rafRef.current): removes the callback if it is pending.
CancelRaf(lps, r) ==
  IF r # 0 /\ lps[r].pc = "raf" THEN [lps EXCEPT ![r] = NoLoop] ELSE lps

\* window.clearTimeout(id)
ClearTimer(tms, t) ==
  IF t # 0 THEN [tms EXCEPT ![t] = NoTimer] ELSE tms

\* ------------------------------------------------------------------------
\* Capture-send loop
\* ------------------------------------------------------------------------
\* A frameLoop that does not test awaitingResultRef.
SendGateNoAwait(socks, ws, vready) ==
  /\ now - lastSentAt >= SEND_INTERVAL_MS
  /\ (mode = "upload" => vready)
  /\ socks[ws].st = "OPEN"
  /\ socks[ws].buffered < BUFFER_CEILING

\* The four conditions frameLoop tests after the intent flag, on the socket ws.
\* The upload tile also requires video.readyState >= 2 (vready).
SendGate(socks, ws, vready) ==
  /\ now - lastSentAt >= SEND_INTERVAL_MS
  /\ (mode = "upload" => vready)
  /\ socks[ws].st = "OPEN"
  /\ ~awaitingResult
  /\ socks[ws].buffered < BUFFER_CEILING

\* What sendCanvasFrame does before its first suspension on a video with
\* non-zero dimensions:
\*   "encode"  it reaches canvas.toBlob and suspends;
\*   "skip"    it returns early (no 2d context);
\*   "throws"  drawing throws.
TickInputs == {"encode", "skip", "throws"}

\* With zero videoWidth or videoHeight sendCanvasFrame returns at its first
\* statement, whatever would follow.
SendOutcome(inp) == IF IsZero(mediaSize) THEN "skip" ELSE inp

\* One run of frameLoop by chain i, with the intent flag sr, the socket wr in
\* wsRef and the sockets socks as they are when it runs.
FrameLoopBody(i, sr, wr, socks, inp, vready) ==
  IF ~sr
    THEN /\ loops' = [loops EXCEPT ![i] = NoLoop]
         /\ UNCHANGED <<lastSentAt, awaitingResult, rafRef>>
    ELSE IF VideoPresent /\ wr # 0 /\ CanvasPresent /\ SendGate(socks, wr, vready)
      THEN /\ lastSentAt' = now
           /\ IF SendOutcome(inp) = "encode"
                THEN /\ awaitingResult' = TRUE
                     /\ loops' = [loops EXCEPT ![i] = [pc |-> "encoding", ws |-> wr]]
                     /\ UNCHANGED rafRef
                ELSE /\ awaitingResult' = (SendOutcome(inp) = "skip")
                     /\ loops' = [loops EXCEPT ![i] = [pc |-> "raf", ws |-> 0]]
                     /\ rafRef' = i
      ELSE /\ loops' = [loops EXCEPT ![i] = [pc |-> "raf", ws |-> 0]]
           /\ rafRef' = i
           /\ UNCHANGED <<lastSentAt, awaitingResult>>

\* A requestAnimationFrame callback of chain i fires.
RafFire(i) ==
  /\ loops[i].pc = "raf"
  /\ \E inp \in TickInputs, vready \in BOOLEAN :
       FrameLoopBody(i, shouldRun, wsRef, sockets, inp, vready)
  /\ UNCHANGED <<env, scene, shouldRun, wsRef, mediaRef, reconnectTimerRef, runningRef,
                 fallRefs, ui, sockets, timers, starts, upload, acks, stops, registry,
                 raisedAt, ackedAt, stopped>>

\* How sendCanvasFrame ends after its suspension:
\*   "sent"    the blob is read and handed to ws.send;
\*   "noBlob"  the encoder yields no blob and it returns;
\*   "throws"  reading the blob or ws.send throws.
EncodeResults == {"sent", "noBlob", "throws"}

\* Chain i resumes from sendCanvasFrame and requests the next animation frame.
EncodeDone(i) ==
  /\ loops[i].pc = "encoding"
  /\ \E res \in EncodeResults, size \in FrameSizes :
       /\ sockets[loops[i].ws].inflight < MaxInflight
       /\ sockets' = IF res = "sent" THEN SendOn(sockets, loops[i].ws, size)
                                      ELSE sockets
       /\ awaitingResult' = IF res = "throws" THEN FALSE ELSE awaitingResult
  /\ loops' = [loops EXCEPT ![i] = [pc |-> "raf", ws |-> 0]]
  /\ rafRef' = i
  /\ UNCHANGED <<env, scene, shouldRun, lastSentAt, wsRef, mediaRef, reconnectTimerRef,
                 runningRef, fallRefs, ui, timers, starts, upload, acks, stops, registry,
                 raisedAt, ackedAt, stopped>>


\* ------------------------------------------------------------------------
\* Fall-alert state machine (the onMetadata callbacks)
\* ------------------------------------------------------------------------
\* A callback whose false replies never reset fallTrueCountRef.
TrueCountNoReset(fall, tc, fc) == IF fall THEN tc + 1 ELSE tc

\* fallTrueCountRef after a reply.
TrueCountAfter(fall, tc, fc) ==
  IF fall THEN tc + 1
  ELSE IF fc + 1 >= FALL_FALSE_RESET THEN 0 ELSE tc

\* fallFalseCountRef after a reply.
FalseCountAfter(fall, fc) == IF fall THEN 0 ELSE fc + 1

\* acknowledgedFallRef after a reply.
AcknowledgedAfter(fall, fc, ack) ==
  IF ~fall /\ fc + 1 >= FALL_FALSE_RESET THEN FALSE ELSE ack

\* A cooldown that compares milliseconds with seconds.
CooldownInSeconds(t, lastAt) == t - lastAt > COOLDOWN_MS \div 1000

\* A cooldown that has passed once exactly COOLDOWN_MS have elapsed.
CooldownInclusive(t, lastAt) == t - lastAt >= COOLDOWN_MS

\* cooldownPassed, at time t with the last popup at time lastAt.
CooldownPassed(t, lastAt) == t - lastAt > COOLDOWN_MS

\* A raise condition that needs one more true reply.
RaiseConditionLate(tc, ack, shown, t, lastAt) ==
  /\ tc > FALL_TRUE_THRESHOLD
  /\ ~ack
  /\ ~shown
  /\ t - lastAt > COOLDOWN_MS

\* A raise condition that does not look at showAlertRef.
RaiseConditionBlind(tc, ack, shown, t, lastAt) ==
  /\ tc >= FALL_TRUE_THRESHOLD
  /\ ~ack
  /\ CooldownPassed(t, lastAt)

\* The condition under which the callback raises the alert.
RaiseCondition(tc, ack, shown, t, lastAt) ==
  /\ tc >= FALL_TRUE_THRESHOLD
  /\ ~ack
  /\ ~shown
  /\ CooldownPassed(t, lastAt)

\* The effect of MetadataRenderer on a new metadata prop with the detections
\* ds: a non-empty set becomes the sticky one, stamped with the present.
StickyDetsAfter(ds, sd) == IF ds # {} THEN ds ELSE sd
StickyAtAfter(ds, at) == IF ds # {} THEN now ELSE at

\* setMetadata(null), with its commit: the effect of MetadataRenderer stores
\* the null metadata and leaves the sticky detections.
ClearMetadata ==
  /\ metadata' = "null"
  /\ dets' = {}
  /\ frameSize' = NoFrame

\* The onMetadata callback on a reply whose fall_detected is fall, whose dets
\* are ds and whose frame size is fs, with the commit of setMetadata: React
\* renders the new metadata and runs the effect of MetadataRenderer, whose
\* refs nothing else of the tile reads.
OnMetadata(fall, ds, fs) ==
  LET tc == TrueCountAfter(fall, fallTrueCount, fallFalseCount)
      fc == FalseCountAfter(fall, fallFalseCount)
      ack == AcknowledgedAfter(fall, fallFalseCount, acknowledgedFall)
      raise == RaiseCondition(tc, ack, showAlertRef, now, lastPopupAt)
  IN /\ awaitingResult' = FALSE
     /\ metadata' = IF fall THEN "fall" ELSE "clear"
     /\ dets' = ds
     /\ frameSize' = fs
     /\ stickyDets' = StickyDetsAfter(ds, stickyDets)
     /\ stickyAt' = StickyAtAfter(ds, stickyAt)
     /\ fallTrueCount' = tc
     /\ fallFalseCount' = fc
     /\ acknowledgedFall' = ack
     /\ showAlert' = IF raise THEN TRUE ELSE showAlert
     /\ lastPopupAt' = IF raise THEN now ELSE lastPopupAt
     /\ raisedAt' = IF raise THEN now ELSE raisedAt

\* The server answers a frame on socket s; ws.onmessage parses the reply and
\* calls onMetadata.  A socket that is not OPEN delivers no message.
ServerReply(s, fall, ds, fs) ==
  /\ sockets[s].st = "OPEN"
  /\ sockets[s].inflight > 0
  /\ sockets[s].buffered = 0
  /\ IF fall THEN fallTrueCount < MaxCount ELSE fallFalseCount < MaxCount
  /\ sockets' = [sockets EXCEPT ![s].inflight = @ - 1]
  /\ OnMetadata(fall, ds, fs)
  /\ malformed' = "none"
  /\ UNCHANGED <<env, media, urls, alarm, cams, logs, halted, painted, shouldRun, lastSentAt, wsRef, rafRef, mediaRef,
                 reconnectTimerRef, runningRef, showAlertRef, running, error,
                 videoUrl, loops, timers, starts, upload, acks, stops, registry, ackedAt,
                 stopped>>

\* Messages that are not metadata:
\*   "notJson"   text that JSON.parse rejects (or a binary message);
\*   "jsonNull"  the JSON text null;
\*   "noFlag"    a JSON object with an empty dets array and no fall_detected.
MalformedKinds == {"notJson", "jsonNull", "noFlag"}

\* Socket s delivers, in place of the reply to a frame, a message that is not
\* metadata.  ws.onmessage calls onMetadata with whatever JSON.parse returns
\* and swallows what either of them throws: JSON.parse throws on "notJson";
\* on "jsonNull" the callback has cleared awaitingResultRef and called
\* setMetadata(null) when reading null.fall_detected throws; on "noFlag" the
\* callback runs to its end with fall_detected undefined.
MalformedReply(s, kind) ==
  /\ sockets[s].st = "OPEN"
  /\ sockets[s].inflight > 0
  /\ sockets[s].buffered = 0
  /\ sockets' = [sockets EXCEPT ![s].inflight = @ - 1]
  /\ malformed' = kind
  /\ CASE kind = "notJson" ->
            UNCHANGED <<awaitingResult, metadata, overlay, fallTrueCount,
                        fallFalseCount, acknowledgedFall, showAlert, lastPopupAt,
                        raisedAt>>
       [] kind = "jsonNull" ->
            /\ awaitingResult' = FALSE
            /\ ClearMetadata
            /\ UNCHANGED <<stickyDets, stickyAt, painted, fallTrueCount,
                           fallFalseCount, acknowledgedFall, showAlert,
                           lastPopupAt, raisedAt>>
       [] kind = "noFlag" ->
            /\ fallFalseCount < MaxCount
            /\ OnMetadata(FALSE, {}, NoFrame)
            /\ UNCHANGED painted
  /\ UNCHANGED <<env, media, urls, alarm, cams, logs, halted, shouldRun, lastSentAt, wsRef, rafRef, mediaRef,
                 reconnectTimerRef, runningRef, showAlertRef, running, error,
                 videoUrl, loops, timers, starts, upload, acks, stops, registry,
                 ackedAt, stopped>>

\* The browser hands the buffered bytes of socket s to the network.
Drain(s) ==
  /\ sockets[s].st = "OPEN"
  /\ sockets[s].buffered > 0
  /\ sockets' = [sockets EXCEPT ![s].buffered = 0]
  /\ UNCHANGED <<env, scene, refs, fallRefs, ui, loops, timers, starts, upload, acks, stops,
                 registry, raisedAt, ackedAt, stopped>>

\* The connection of socket s is established (ws.onopen; the upload tile only
\* displays it).
SocketOpens(s) ==
  /\ sockets[s].st = "CONNECTING"
  /\ sockets' = [sockets EXCEPT ![s].st = "OPEN"]
  /\ UNCHANGED <<env, scene, refs, fallRefs, ui, loops, timers, starts, upload, acks, stops,
                 registry, raisedAt, ackedAt, stopped>>

\* The slot of a new reconnect timer: a free one, or the one reconnectTimerRef
\* holds if that timer is gone.
ReconnectSlots ==
  FreeTimers \cup {t \in Timers : t = reconnectTimerRef /\ timers[t].kind = "none"}

\* Socket s closes (peer, network, failed connect, or the end of the closing
\* handshake) and its close callback runs: the live tile's ws.onclose, or the
\* upload tile's onClose, which schedules connectSocket while the intent flag
\* is set.
SocketCloses(s) ==
  /\ sockets[s].st \in {"CONNECTING", "OPEN", "CLOSING"}
  /\ sockets' = [sockets EXCEPT ![s] = NoSocket]
  /\ awaitingResult' = FALSE
  /\ IF mode = "upload" /\ shouldRun
       THEN /\ ReconnectSlots # {}
            /\ LET t == Lowest(ReconnectSlots)
               IN /\ timers' = [timers EXCEPT ![t] =
                        [kind |-> "reconnect", due |-> now + RECONNECT_DELAY_MS]]
                  /\ reconnectTimerRef' = t
       ELSE UNCHANGED <<timers, reconnectTimerRef>>
  /\ UNCHANGED <<env, scene, shouldRun, lastSentAt, wsRef, rafRef, mediaRef, runningRef,
                 fallRefs, ui, loops, starts, upload, acks, stops, registry, raisedAt,
                 ackedAt, stopped>>

\* ------------------------------------------------------------------------
\* Operator acknowledgment (acknowledgeFall)
\* ------------------------------------------------------------------------
\* An acknowledgeFall that does not refresh lastPopupAtRef.
AcknowledgeNoRefresh ==
  /\ acknowledgedFall' = TRUE
  /\ lastPopupAt' = lastPopupAt
  /\ showAlert' = FALSE
  /\ ackedAt' = now

\* What acknowledgeFall does once its POST has settled (or was skipped).
AcknowledgeEffect ==
  /\ acknowledgedFall' = TRUE
  /\ lastPopupAt' = now
  /\ showAlert' = FALSE
  /\ ackedAt' = now

\* The operator presses Acknowledge on the visible alert: with a valid token
\* the POST is awaited first, without one the effects happen at once.
AcknowledgeClick ==
  /\ mounted
  /\ showAlert
  /\ (mode = "upload" => videoUrl # 0)
  /\ IF tokenOk
       THEN /\ acks < MaxAcks
            /\ acks' = acks + 1
            /\ UNCHANGED <<acknowledgedFall, lastPopupAt, showAlert, ackedAt>>
       ELSE AcknowledgeEffect /\ UNCHANGED acks
  /\ UNCHANGED <<env, scene, refs, fallTrueCount, fallFalseCount, showAlertRef, running,
                 metadata, error, videoUrl, sockets, loops, timers, starts, upload,
                 stops, registry, raisedAt, stopped>>

\* The POST of an acknowledgment settles (fulfilled, or rejected and caught).
AcknowledgeDone ==
  /\ acks > 0
  /\ acks' = acks - 1
  /\ AcknowledgeEffect
  /\ UNCHANGED <<env, scene, refs, fallTrueCount, fallFalseCount, showAlertRef, running,
                 metadata, error, videoUrl, sockets, loops, timers, starts, upload,
                 stops, registry, raisedAt, stopped>>

\* ------------------------------------------------------------------------
\* React commit and the clock
\* ------------------------------------------------------------------------
\* React commits the pending state and runs the effects that copy it into the
\* refs: showAlertRef.current = showAlert, runningRef.current = running.
EffectsFlushed ==
  /\ showAlertRef = showAlert
  /\ (mode = "upload" => runningRef = running)

SyncRefs ==
  /\ mounted
  /\ ~EffectsFlushed
  /\ showAlertRef' = showAlert
  /\ runningRef' = IF mode = "upload" THEN running ELSE runningRef
  /\ UNCHANGED <<env, scene, shouldRun, awaitingResult, lastSentAt, wsRef, rafRef,
                 mediaRef, reconnectTimerRef, fallTrueCount, fallFalseCount,
                 acknowledgedFall, lastPopupAt, ui, runtime, registry, raisedAt,
                 ackedAt, stopped>>

\* No timeout pending, no time recorded.
NoDue == 0 - 1
\* The ages of the alert's history stop counting here.
AlarmHorizon == ALARM_CEILING_MS + BEEP_INTERVAL_MS

\* The interval of startContinuousAlarm: age is Date.now() - startTime, next
\* the ms until its callback runs again, held whether the effect's closure
\* has its stop function in fallbackStop.
NoBeeper == [on |-> FALSE, age |-> 0, next |-> 0, held |-> FALSE]
NewBeeper(held) == [on |-> TRUE, age |-> 0, next |-> BEEP_INTERVAL_MS, held |-> held]

\* The clocks of the audio cue once d more milliseconds have passed.
AlarmClocks(d) ==
  /\ audioDue' = IF audioDue = NoDue THEN NoDue ELSE Max(audioDue - d, 0)
  /\ beeper' = IF beeper.on
                 THEN [beeper EXCEPT !.age = Min(@ + d, AlarmHorizon),
                                     !.next = Max(@ - d, 0)]
                 ELSE beeper
  /\ beepLeft' = Max(beepLeft - d, 0)
  /\ shownAge' = IF shownAge = NoDue THEN NoDue ELSE Min(shownAge + d, AlarmHorizon)
  /\ UNCHANGED <<seenVisible, audio>>

\* The clock advances by d.  A mounted tile's effects run within the same
\* frame as the commit, so they are flushed before time moves on.
Tick(d) ==
  /\ AlarmClocks(d)
  /\ mounted => EffectsFlushed
  /\ lastSentAt' = Earlier(lastSentAt, d, SentHorizon)
  /\ lastPopupAt' = Earlier(lastPopupAt, d, PopupHorizon)
  /\ raisedAt' = Earlier(raisedAt, d, PopupHorizon)
  /\ ackedAt' = Earlier(ackedAt, d, PopupHorizon)
  /\ stickyAt' = Earlier(stickyAt, d, STICKY_MS)
  /\ timers' = [t \in Timers |->
                  IF timers[t].kind = "none" THEN timers[t]
                  ELSE [timers[t] EXCEPT !.due = DueAfter(@, d)]]
  /\ UNCHANGED <<env, media, urls, cams, logs, halted, malformed, dets, frameSize, stickyDets, painted, shouldRun, awaitingResult, wsRef, rafRef, mediaRef,
                 reconnectTimerRef, runningRef, fallTrueCount, fallFalseCount,
                 acknowledgedFall, showAlertRef, ui, sockets, loops, starts,
                 upload, acks, stops, registry, stopped>>

\* The dimensions the <video> reports change: the source is decoded, or a
\* source that is not decoded yet (or has no video track) takes its place.
MediaSizes == {NoSize, DecodedSize}

MediaSizeChanges(size) ==
  /\ size # mediaSize
  /\ mediaSize' = size
  /\ UNCHANGED <<env, canvasSize, urls, alarm, cams, logs, halted, overlay, malformed, refs, fallRefs, ui,
                 runtime, registry, history>>

\* The token expires.
TokenExpires ==
  /\ tokenOk
  /\ tokenOk' = FALSE
  /\ UNCHANGED <<mode, mounted, scene, refs, fallRefs, ui, runtime, registry,
                 raisedAt, ackedAt, stopped>>

\* ------------------------------------------------------------------------
\* Session registry (streamSession.ts)
\* ------------------------------------------------------------------------
\* setLiveSession(camId, { stream, autoStart })
SetLiveSession(m, auto) ==
  [stream |-> m, videoUrl |-> 0, autoStart |-> auto, present |-> TRUE]

\* A setLiveAutoStart that sets the flag whatever value it is given.
SetAutoStartOn(session, auto) ==
  IF session.present THEN [session EXCEPT !.autoStart = TRUE] ELSE session

\* setLiveAutoStart / setUploadAutoStart: a no-op without an entry.
SetAutoStart(session, auto) ==
  IF session.present THEN [session EXCEPT !.autoStart = auto] ELSE session

\* A clearLiveSession that stops the tracks of every stream.
StreamsAfterClearAll(session, active) ==
  IF session.present THEN {} ELSE active

\* The streams whose tracks are live after clearLiveSession(camId).
StreamsAfterClear(session, active) ==
  IF session.present THEN active \ {session.stream} ELSE active

\* ------------------------------------------------------------------------
\* Starting the socket and the loop
\* ------------------------------------------------------------------------
NewWs == Lowest(FreeSockets)

\* frameLoop() called from a start path: a new chain runs its first tick.
SpawnLoop(sr, wr, socks) ==
  /\ FreeLoops # {}
  /\ \E inp \in TickInputs, vready \in BOOLEAN :
       FrameLoopBody(Lowest(FreeLoops), sr, wr, socks, inp, vready)

\* A tail that does not call frameLoop.
BeginLiveNoLoop ==
  /\ FreeSockets # {}
  /\ shouldRun' = TRUE
  /\ running' = TRUE
  /\ sockets' = [sockets EXCEPT ![NewWs] = NewSocket]
  /\ wsRef' = NewWs
  /\ UNCHANGED <<loops, lastSentAt, awaitingResult, rafRef>>

\* The tail shared by startLive and resumeLive: set the intent flag, open a
\* socket with createInferSocket, install ws.onclose, call frameLoop.
BeginLive ==
  /\ FreeSockets # {}
  /\ shouldRun' = TRUE
  /\ running' = TRUE
  /\ sockets' = [sockets EXCEPT ![NewWs] = NewSocket]
  /\ wsRef' = NewWs
  /\ SpawnLoop(TRUE, NewWs, [sockets EXCEPT ![NewWs] = NewSocket])

\* detachRuntime (live) without the video element.
DetachRuntime ==
  /\ shouldRun' = FALSE
  /\ loops' = CancelRaf(loops, rafRef)
  /\ rafRef' = 0
  /\ sockets' = CloseSocket(sockets, wsRef)
  /\ wsRef' = 0
  /\ awaitingResult' = FALSE

\* stopAll up to its POST; nothing follows the POST.
StopAll ==
  /\ DetachRuntime
  /\ activeStreams' = StreamsAfterClear(liveSession, activeStreams)
  /\ liveSession' = NoSession
  /\ mediaRef' = 0
  /\ running' = FALSE

\* ------------------------------------------------------------------------
\* Live tile (LiveCameraTile)
\* ------------------------------------------------------------------------
\* The operator presses Start Live.  Without a valid token only the error is
\* set.  With a registered stream the call suspends at video.play(), without
\* one at getUserMedia.
StartLiveClick ==
  /\ mode = "live" /\ mounted /\ ~running
  /\ IF ~tokenOk
       THEN /\ error' = TRUE
            /\ UNCHANGED <<starts, mediaRef, stopped, halted>>
       ELSE /\ FreeStarts # {}
            /\ error' = FALSE
            /\ stopped' = FALSE
            /\ halted' = FALSE
            /\ IF liveSession.present
                 THEN /\ mediaRef' = liveSession.stream
                      /\ starts' = [starts EXCEPT ![Lowest(FreeStarts)] =
                            [pc |-> "play", stream |-> liveSession.stream]]
                 ELSE /\ starts' = [starts EXCEPT ![Lowest(FreeStarts)] =
                            [pc |-> "gum", stream |-> 0]]
                      /\ UNCHANGED mediaRef
  /\ UNCHANGED <<env, media, overlay, malformed, urls, alarm, cams, logs, shouldRun, awaitingResult, lastSentAt, wsRef, rafRef,
                 reconnectTimerRef, runningRef, fallRefs, running, showAlert,
                 metadata, videoUrl, sockets, loops, timers, upload, acks, stops,
                 registry, raisedAt, ackedAt>>

\* The operator presses Start Live while no Start of theirs is pending.
StartLiveOnce ==
  /\ tokenOk => FreeStarts = Starts
  /\ StartLiveClick

\* Lines 124-166 of startLive, run by the invocation k with stream m.
StartLiveTail(k, m) ==
  /\ BeginLive
  /\ liveSession' = SetLiveSession(m, TRUE)
  /\ starts' = [starts EXCEPT ![k] = NoStart]
  /\ UNCHANGED <<env, scene, reconnectTimerRef, runningRef, fallRefs, showAlert,
                 metadata, error, videoUrl, timers, upload, acks, stops, uploadSession,
                 raisedAt, ackedAt, stopped>>

\* getUserMedia resolves with a new stream.  A mounted tile attaches it and
\* suspends at video.play(); a tile whose <video> is gone goes straight on.
GumResolves(k) ==
  /\ starts[k].pc = "gum"
  /\ FreeStreams # {}
  /\ LET m == Lowest(FreeStreams)
     IN /\ activeStreams' = activeStreams \cup {m}
        /\ mediaRef' = m
        /\ IF VideoPresent
             THEN /\ starts' = [starts EXCEPT ![k] = [pc |-> "play", stream |-> m]]
                  /\ UNCHANGED <<env, scene, shouldRun, awaitingResult, lastSentAt, wsRef,
                                 rafRef, reconnectTimerRef, runningRef, fallRefs,
                                 ui, sockets, loops, timers, upload, acks, stops,
                                 liveSession, uploadSession, raisedAt, ackedAt,
                                 stopped>>
             ELSE StartLiveTail(k, m)

\* video.play() resolves.
PlayResolves(k) ==
  /\ starts[k].pc = "play"
  /\ StartLiveTail(k, starts[k].stream)
  /\ UNCHANGED <<mediaRef, activeStreams>>

\* getUserMedia or video.play() rejects: the catch block sets the error and
\* calls stopAll.
StartLiveFails(k) ==
  /\ starts[k].pc \in {"gum", "play"}
  /\ starts' = [starts EXCEPT ![k] = NoStart]
  /\ error' = TRUE
  /\ StopAll
  /\ UNCHANGED <<env, scene, lastSentAt, reconnectTimerRef, runningRef, fallRefs,
                 showAlert, metadata, videoUrl, timers, upload, acks, stops,
                 uploadSession, raisedAt, ackedAt, stopped>>

\* The operator presses Stop on the live tile.
StopLiveClick ==
  /\ mode = "live" /\ mounted /\ running
  /\ StopAll
  /\ stopped' = TRUE
  /\ halted' = TRUE
  /\ UNCHANGED <<env, media, overlay, malformed, urls, alarm, cams, logs, lastSentAt, reconnectTimerRef, runningRef, fallRefs,
                 showAlert, metadata, error, videoUrl, timers, starts, upload, acks,
                 stops, uploadSession, raisedAt, ackedAt>>

\* The cleanup of the live tile's mount effect: it records the intent flag as
\* autoStart and detaches the runtime, keeping the session.
UnmountLive ==
  /\ mode = "live" /\ mounted
  /\ mounted' = FALSE
  /\ liveSession' = SetAutoStart(liveSession, shouldRun)
  /\ DetachRuntime
  /\ stopped' = TRUE
  /\ UNCHANGED <<mode, tokenOk, scene, lastSentAt, mediaRef,
                 reconnectTimerRef, runningRef, fallRefs, ui, timers, starts, upload,
                 acks, stops, uploadSession, activeStreams, raisedAt, ackedAt>>

\* The live tile's mount effect runs again on the same component instance
\* (its dependencies changed, or a development double mount): resumeLive
\* returns unless the registry holds a session with autoStart, and otherwise
\* attaches the stream and suspends at video.play().
MountLive ==
  /\ mode = "live" /\ ~mounted
  /\ mounted' = TRUE
  /\ stopped' = FALSE
  /\ IF liveSession.present /\ liveSession.autoStart
       THEN /\ FreeStarts # {}
            /\ mediaRef' = liveSession.stream
            /\ starts' = [starts EXCEPT ![Lowest(FreeStarts)] =
                  [pc |-> "resume", stream |-> liveSession.stream]]
       ELSE UNCHANGED <<mediaRef, starts>>
  /\ UNCHANGED <<mode, tokenOk, scene, shouldRun, awaitingResult,
                 lastSentAt, wsRef, rafRef, reconnectTimerRef, runningRef,
                 fallRefs, ui, sockets, loops, timers, upload, acks, stops, registry,
                 raisedAt, ackedAt>>

\* video.play() of resumeLive settles (a rejection is swallowed) and the rest
\* of resumeLive runs.
ResumeLiveTail(k) ==
  /\ starts[k].pc = "resume"
  /\ BeginLive
  /\ starts' = [starts EXCEPT ![k] = NoStart]
  /\ UNCHANGED <<env, scene, mediaRef, reconnectTimerRef, runningRef, fallRefs,
                 showAlert, metadata, error, videoUrl, timers, upload, acks, stops,
                 registry, raisedAt, ackedAt, stopped>>

\* ------------------------------------------------------------------------
\* Upload tile (VideoTile)
\* ------------------------------------------------------------------------
\* connectSocket: with a missing or expired token it only reports the auth
\* error; otherwise it opens a socket and stores it in wsRef, leaving the
\* socket wsRef held before as it is.
CanConnect == tokenOk => FreeSockets # {}
WsAfterConnect == IF tokenOk THEN NewWs ELSE wsRef
SocketsAfterConnect(socks) ==
  IF tokenOk THEN [socks EXCEPT ![NewWs] = NewSocket] ELSE socks

\* The statements shared by start and by the timer of onUpload: set the intent
\* flag, connect, run frameLoop.
BeginUpload ==
  /\ CanConnect
  /\ shouldRun' = TRUE
  /\ running' = TRUE
  /\ sockets' = SocketsAfterConnect(sockets)
  /\ wsRef' = WsAfterConnect
  /\ SpawnLoop(TRUE, WsAfterConnect, SocketsAfterConnect(sockets))

\* start(): returns without a <video> or while runningRef is set.
UploadStart ==
  /\ VideoPresent /\ ~runningRef
  /\ BeginUpload
  /\ uploadSession' = SetAutoStart(uploadSession, TRUE)

\* The operator presses Start on the upload tile.
StartUploadClick ==
  /\ mode = "upload" /\ mounted /\ videoUrl # 0 /\ ~running
  /\ UploadStart
  /\ stopped' = FALSE
  /\ halted' = FALSE
  /\ UNCHANGED <<env, media, overlay, malformed, urls, alarm, cams, logs, mediaRef, reconnectTimerRef, runningRef, fallRefs,
                 showAlert, metadata, error, videoUrl, timers, starts, upload,
                 acks, stops, liveSession, activeStreams, raisedAt, ackedAt>>

\* stopSocketsAndLoops
StopSocketsAndLoops ==
  /\ shouldRun' = FALSE
  /\ loops' = CancelRaf(loops, rafRef)
  /\ rafRef' = 0
  /\ timers' = ClearTimer(timers, reconnectTimerRef)
  /\ reconnectTimerRef' = 0
  /\ sockets' = CloseSocket(sockets, wsRef)
  /\ wsRef' = 0
  /\ awaitingResult' = FALSE

\* The refs of a MetadataRenderer that is mounted anew, and its blank canvas.
FreshOverlay ==
  /\ stickyDets' = {}
  /\ stickyAt' = now - STICKY_MS
  /\ painted' = {}

\* The last statements of stop, after its POST: clearUploadSession,
\* setVideoUrl(null), setMetadata(null).  Without a videoUrl the tile renders
\* no <video> and no MetadataRenderer; the next upload mounts a new one.
StopUploadTail ==
  /\ uploadSession' = NoSession
  /\ liveUrls' = liveUrls \ {uploadSession.videoUrl}
  /\ videoUrl' = 0
  /\ ClearMetadata
  /\ FreshOverlay

\* The operator presses Stop on the upload tile: with a valid token the POST
\* is awaited before the last statements, without one they follow at once.
StopUploadClick ==
  /\ mode = "upload" /\ mounted /\ running
  /\ StopSocketsAndLoops
  /\ running' = FALSE
  /\ showAlert' = FALSE
  /\ stopped' = TRUE
  /\ halted' = TRUE
  /\ IF tokenOk
       THEN /\ stops < MaxStops
            /\ stops' = stops + 1
            /\ uploadSession' = SetAutoStart(uploadSession, FALSE)
            /\ UNCHANGED <<videoUrl, metadata, overlay, liveUrls>>
       ELSE /\ StopUploadTail
            /\ UNCHANGED stops
  /\ UNCHANGED <<env, media, malformed, uploadFailed, alarm, cams, logs, lastSentAt, mediaRef, runningRef, fallRefs, error, starts,
                 upload, acks, liveSession, activeStreams, raisedAt, ackedAt>>

\* The POST of a stop settles.
StopUploadDone ==
  /\ stops > 0
  /\ stops' = stops - 1
  /\ StopUploadTail
  /\ UNCHANGED <<env, media, malformed, uploadFailed, alarm, cams, logs, halted, refs, fallRefs, running, showAlert, error, sockets, loops,
                 timers, starts, upload, acks, liveSession, activeStreams,
                 raisedAt, ackedAt, stopped>>

\* The operator chooses a file: onUpload posts it (with an expired token it
\* only reports the auth error).
UploadChoose ==
  /\ mode = "upload" /\ mounted /\ tokenOk
  /\ upload.pc = "idle"
  /\ upload' = [pc |-> "post", hadUrl |-> videoUrl # 0]
  /\ UNCHANGED <<env, scene, refs, fallRefs, ui, sockets, loops, timers, starts, acks,
                 stops, registry, raisedAt, ackedAt, stopped>>

\* A URL.createObjectURL result that no one holds.
NewUrl == Lowest((1..3) \ ({videoUrl, uploadSession.videoUrl} \cup liveUrls))

\* The POST of onUpload is answered, with a success status (ok) or with an
\* error status: fetch resolves either way and the response is not looked
\* at.  If the tile showed a video when the file was chosen, the registered
\* session is cleared and its URL revoked; the new object URL is registered
\* with autoStart and shown, and the start is scheduled 100 ms later.
UploadAnswered(ok) ==
  /\ upload.pc = "post"
  /\ FreeTimers # {}
  /\ upload' = NoUpload
  /\ uploadFailed' = IF ok THEN "no" ELSE "status"
  /\ liveUrls' = (IF upload.hadUrl THEN liveUrls \ {uploadSession.videoUrl} ELSE liveUrls)
                    \cup {NewUrl}
  /\ videoUrl' = NewUrl
  /\ uploadSession' = [stream |-> 0, videoUrl |-> NewUrl, autoStart |-> TRUE,
                       present |-> TRUE]
  /\ ClearMetadata
  /\ timers' = [timers EXCEPT ![Lowest(FreeTimers)] =
        [kind |-> "uploadStart", due |-> now + UPLOAD_START_DELAY_MS]]
  /\ stopped' = FALSE
  /\ halted' = FALSE
  /\ UNCHANGED <<env, media, malformed, alarm, cams, logs, stickyDets, stickyAt, painted, refs,
                 fallRefs, running, showAlert, error, sockets, loops,
                 starts, acks, stops, liveSession, activeStreams, raisedAt,
                 ackedAt>>

\* The POST of onUpload is answered with a success status.
UploadDone == UploadAnswered(TRUE)

\* The POST of onUpload rejects (the request got no answer): only the
\* uploading indicator is reset.  The history notes mark.
UploadRejects(mark) ==
  /\ upload.pc = "post"
  /\ upload' = NoUpload
  /\ uploadFailed' = mark
  /\ UNCHANGED <<env, media, overlay, malformed, liveUrls, alarm, cams, logs, halted, refs, fallRefs, ui, sockets,
                 loops, timers, starts, acks, stops, registry, raisedAt, ackedAt,
                 stopped>>

\* The rejection, with the history left as it is and with the history kept.
UploadFails == UploadRejects(uploadFailed)
UploadRejected == UploadRejects("rejected")

\* A reconnect timer fires: connectSocket.
ReconnectFires(t) ==
  /\ timers[t].kind = "reconnect"
  /\ now >= timers[t].due
  /\ CanConnect
  /\ timers' = [timers EXCEPT ![t] = NoTimer]
  /\ sockets' = SocketsAfterConnect(sockets)
  /\ wsRef' = WsAfterConnect
  /\ UNCHANGED <<env, scene, shouldRun, awaitingResult, lastSentAt, rafRef, mediaRef,
                 reconnectTimerRef, runningRef, fallRefs, ui, loops, starts,
                 upload, acks, stops, registry, raisedAt, ackedAt, stopped>>

\* The timer of onUpload fires: unless the intent flag is set it sets it,
\* connects and runs frameLoop.
UploadStartFires(t) ==
  /\ timers[t].kind = "uploadStart"
  /\ now >= timers[t].due
  /\ timers' = [timers EXCEPT ![t] = NoTimer]
  /\ IF ~shouldRun
       THEN BeginUpload
       ELSE UNCHANGED <<shouldRun, running, sockets, wsRef, loops, lastSentAt,
                        awaitingResult, rafRef>>
  /\ UNCHANGED <<env, scene, mediaRef, reconnectTimerRef, runningRef, fallRefs,
                 showAlert, metadata, error, videoUrl, starts, upload, acks,
                 stops, registry, raisedAt, ackedAt, stopped>>

\* The cleanup of the upload tile's unmount effect.
UnmountUpload ==
  /\ mode = "upload" /\ mounted
  /\ mounted' = FALSE
  /\ StopSocketsAndLoops
  /\ stopped' = TRUE
  /\ UNCHANGED <<mode, tokenOk, scene, lastSentAt, mediaRef, runningRef,
                 fallRefs, ui, starts, upload, acks, stops, registry, raisedAt,
                 ackedAt>>

\* The upload tile's effects run again on the same component instance: the
\* auto-start effect calls start() at once when the registry holds a session
\* with autoStart and neither shouldRunRef nor runningRef is set.
MountUpload ==
  /\ mode = "upload" /\ ~mounted
  /\ mounted' = TRUE
  /\ stopped' = FALSE
  /\ IF videoUrl # 0 /\ uploadSession.present /\ uploadSession.autoStart
        /\ ~shouldRun /\ ~runningRef
       THEN /\ BeginUpload
            /\ uploadSession' = SetAutoStart(uploadSession, TRUE)
       ELSE UNCHANGED <<shouldRun, running, sockets, wsRef, loops, lastSentAt,
                        awaitingResult, rafRef, uploadSession>>
  /\ UNCHANGED <<mode, tokenOk, scene, mediaRef, reconnectTimerRef,
                 runningRef, fallRefs, showAlert, metadata, error, videoUrl,
                 timers, starts, upload, acks, stops, liveSession,
                 activeStreams, raisedAt, ackedAt>>

\* ------------------------------------------------------------------------
\* Component instances
\* ------------------------------------------------------------------------
\* Nothing of the unmounted instance is left running.
Quiescent ==
  /\ \A s \in Sockets : sockets[s].st = "CLOSED"
  /\ \A i \in Loops : loops[i].pc = "idle"
  /\ \A t \in Timers : timers[t].kind = "none"
  /\ \A k \in Starts : starts[k].pc = "idle"
  /\ upload.pc = "idle" /\ acks = 0 /\ stops = 0

\* The refs and the React state of a new component instance (useRef and
\* useState initial values); the upload tile reads videoUrl from the registry.
FreshInstance ==
  /\ shouldRun' = FALSE /\ awaitingResult' = FALSE /\ lastSentAt' = now - SentHorizon
  /\ wsRef' = 0 /\ rafRef' = 0 /\ mediaRef' = 0
  /\ reconnectTimerRef' = 0 /\ runningRef' = FALSE
  /\ fallTrueCount' = 0 /\ fallFalseCount' = 0 /\ acknowledgedFall' = FALSE
  /\ lastPopupAt' = now - PopupHorizon /\ showAlertRef' = FALSE
  /\ running' = FALSE /\ showAlert' = FALSE
  /\ ClearMetadata
  /\ FreshOverlay
  /\ error' = FALSE
  /\ videoUrl' = IF mode = "upload" /\ uploadSession.present
                   THEN uploadSession.videoUrl ELSE 0

\* After an unmount that left nothing running, the page renders the tile
\* again as a new component instance; the history of raises and
\* acknowledgments is that of the instance.
NewInstance ==
  /\ ~mounted
  /\ Quiescent
  /\ FreshInstance
  /\ raisedAt' = now - PopupHorizon
  /\ ackedAt' = now - PopupHorizon
  /\ UNCHANGED <<env, media, urls, alarm, cams, logs, halted, malformed, runtime, registry, stopped>>

\* ------------------------------------------------------------------------
\* Overlay (MetadataRenderer)
\* ------------------------------------------------------------------------
\* The numbers of draw() are exact fractions <<numerator, denominator>> in
\* lowest terms with a positive denominator.
RECURSIVE GCD(_, _)
GCD(a, b) == IF b = 0 THEN a ELSE GCD(b, a % b)
Abs(n) == IF n < 0 THEN 0 - n ELSE n
Frac(n, d) ==
  LET g == GCD(Abs(n), Abs(d))
      sign == IF d < 0 THEN 0 - 1 ELSE 1
  IN <<(sign * n) \div g, (sign * d) \div g>>
Whole(n) == <<n, 1>>
Plus(p, q) == Frac(p[1] * q[2] + q[1] * p[2], p[2] * q[2])
Minus(p, q) == Frac(p[1] * q[2] - q[1] * p[2], p[2] * q[2])
Times(p, q) == Frac(p[1] * q[1], p[2] * q[2])
Over(p, q) == Frac(p[1] * q[2], p[2] * q[1])
Greater(p, q) == p[1] * q[2] > q[1] * p[2]

\* A detection box, in the coordinates of the source frame.
Box(x1, y1, x2, y2) == [x1 |-> x1, y1 |-> y1, x2 |-> x2, y2 |-> y2]

\* videoWidth x videoHeight of the <video>: zero without a source.
VideoDims ==
  IF (mode = "live" /\ mediaRef # 0) \/ (mode = "upload" /\ videoUrl # 0)
    THEN mediaSize ELSE NoSize

\* A source size that takes the video's dimensions whenever it has any.
SourceSizeNative ==
  <<IF VideoDims[1] # 0 \/ frameSize[1] = Absent THEN VideoDims[1] ELSE frameSize[1],
    IF VideoDims[2] # 0 \/ frameSize[2] = Absent THEN VideoDims[2] ELSE frameSize[2]>>

\* sourceWidth x sourceHeight of draw(): each dimension is the one the
\* latest metadata names, and the video's where it is null or missing.
SourceSize ==
  <<IF frameSize[1] # Absent THEN frameSize[1] ELSE VideoDims[1],
    IF frameSize[2] # Absent THEN frameSize[2] ELSE VideoDims[2]>>

\* The detections draw() paints: those of the latest metadata, and without
\* any the sticky ones while they are younger than STICKY_MS.
DetsToDraw ==
  IF dets # {} THEN dets
  ELSE IF now - stickyAt < STICKY_MS THEN stickyDets
  ELSE {}

\* A letterbox that compares the aspect ratios the other way round.
LetterboxCover(canvas, source) ==
  LET cw == Whole(canvas[1])
      ch == Whole(canvas[2])
      canvasAspect == Over(cw, ch)
      videoAspect == Over(Whole(source[1]), Whole(source[2]))
  IN IF Greater(canvasAspect, videoAspect)
       THEN LET drawH == Over(cw, videoAspect)
            IN [drawW |-> cw, drawH |-> drawH, drawX |-> Whole(0),
                drawY |-> Over(Minus(ch, drawH), Whole(2))]
       ELSE LET drawW == Times(ch, videoAspect)
            IN [drawW |-> drawW, drawH |-> ch,
                drawX |-> Over(Minus(cw, drawW), Whole(2)), drawY |-> Whole(0)]

\* The draw rectangle of draw() for a canvas and a source size.
Letterbox(canvas, source) ==
  LET cw == Whole(canvas[1])
      ch == Whole(canvas[2])
      canvasAspect == Over(cw, ch)
      videoAspect == Over(Whole(source[1]), Whole(source[2]))
  IN IF Greater(videoAspect, canvasAspect)
       THEN LET drawH == Over(cw, videoAspect)
            IN [drawW |-> cw, drawH |-> drawH, drawX |-> Whole(0),
                drawY |-> Over(Minus(ch, drawH), Whole(2))]
       ELSE LET drawW == Times(ch, videoAspect)
            IN [drawW |-> drawW, drawH |-> ch,
                drawX |-> Over(Minus(cw, drawW), Whole(2)), drawY |-> Whole(0)]

\* The rectangle drawBox strokes for the detection det.
DrawBox(det, rect, source) ==
  LET scaleX == Over(rect.drawW, Whole(source[1]))
      scaleY == Over(rect.drawH, Whole(source[2]))
  IN [x |-> Plus(rect.drawX, Times(Whole(det.x1), scaleX)),
      y |-> Plus(rect.drawY, Times(Whole(det.y1), scaleY)),
      w |-> Times(Whole(det.x2 - det.x1), scaleX),
      h |-> Times(Whole(det.y2 - det.y1), scaleY)]

\* What one run of draw() leaves on the canvas.
Drawn ==
  IF IsZero(SourceSize) THEN {}
  ELSE {DrawBox(d, Letterbox(canvasSize, SourceSize), SourceSize) : d \in DetsToDraw}

\* The animation-frame callback draw() of the mounted renderer runs.
DrawOverlay ==
  /\ VideoPresent
  /\ painted' = Drawn
  /\ UNCHANGED <<env, media, urls, alarm, cams, logs, halted, dets, frameSize, stickyDets, stickyAt, malformed,
                 refs, fallRefs, ui, runtime, registry, history>>

\* The ResizeObserver of the renderer sees the <video> box at another size:
\* setting the canvas dimensions blanks the canvas.
ResizeCanvas(size) ==
  /\ VideoPresent
  /\ size # canvasSize
  /\ canvasSize' = size
  /\ painted' = {}
  /\ UNCHANGED <<env, mediaSize, urls, alarm, cams, logs, halted, dets, frameSize, stickyDets, stickyAt,
                 malformed, refs, fallRefs, ui, runtime, registry, history>>

\* The frame sizes a reply carries: none (frame_width and frame_height
\* absent), the decoded size of the video, a 4:3 frame, a portrait frame,
\* a width without a height, and a width of zero.
ReplyFrameSizes ==
  {NoFrame, DecodedSize, <<640, 480>>, <<720, 1280>>, <<640, Absent>>, <<0, 1080>>}

\* The detection that spans the whole source frame, and one inside it.
FullFrame(size) == Box(0, 0, size[1], size[2])
Inner(size) == Box(size[1] \div 4, size[2] \div 4, size[1] \div 2, size[2] \div 2)

\* The detection lists a reply about a frame of this size carries.
DetSetsFor(size) == {{}, {FullFrame(size)}, {FullFrame(size), Inner(size)}}

\* The size of the frame a reply is about: the one it names, else the video's.
FrameOf(fs) ==
  <<IF fs[1] = Absent THEN DecodedSize[1] ELSE fs[1],
    IF fs[2] = Absent THEN DecodedSize[2] ELSE fs[2]>>

\* The sizes the ResizeObserver reports for the <video> box.
CanvasSizes == {TileCanvas, <<800, 800>>, <<300, 600>>}


\* ------------------------------------------------------------------------
\* The audio cue of the alert (FallAlert, startContinuousAlarm)
\* ------------------------------------------------------------------------
\* What the effect's cleanup and stopRef do: clearTimeout, audio.pause(),
\* fallbackStop?.().  pause() rejects a play() that has not settled, and the
\* catch of that play() then starts the fallback after the closure was
\* left, so that no one holds its stop function.
StopCue ==
  /\ audio = "pending" => ~beeper.on
  /\ audioDue' = NoDue
  /\ audio' = "none"
  /\ beeper' = IF audio = "pending" THEN NewBeeper(FALSE)
               ELSE IF beeper.on /\ beeper.held THEN NoBeeper
               ELSE beeper

\* FallAlert's effect runs after visible changed: when the alert got visible
\* it creates the looping Audio, calls play() and arms the timeout; when it
\* got hidden it stops what the run before started.
AlarmEffect ==
  /\ mounted
  /\ seenVisible # showAlert
  /\ seenVisible' = showAlert
  /\ IF showAlert
       THEN /\ audio' = "pending"
            /\ audioDue' = ALARM_CEILING_MS
            /\ shownAge' = 0
            /\ UNCHANGED beeper
       ELSE /\ StopCue
            /\ UNCHANGED shownAge
  /\ UNCHANGED <<env, media, overlay, malformed, urls, cams, logs, halted, beepLeft, refs, fallRefs, ui,
                 runtime, registry, history>>

\* audio.play() resolves: the alarm file sounds, looping.
AudioPlays ==
  /\ audio = "pending"
  /\ audio' = "playing"
  /\ UNCHANGED <<env, media, overlay, malformed, urls, cams, logs, halted, seenVisible, audioDue, beeper,
                 beepLeft, shownAge, refs, fallRefs, ui, runtime, registry, history>>

\* audio.play() rejects (autoplay is blocked): the catch starts the
\* fallback and keeps its stop function.
AudioRejected ==
  /\ audio = "pending"
  /\ ~beeper.on
  /\ audio' = "none"
  /\ beeper' = NewBeeper(TRUE)
  /\ UNCHANGED <<env, media, overlay, malformed, urls, cams, logs, halted, seenVisible, audioDue,
                 beepLeft, shownAge, refs, fallRefs, ui, runtime, registry, history>>

\* The timeout of the effect fires: audio.pause(), which also rejects a
\* play() that has not settled.
AlarmTimeout ==
  /\ audioDue = 0
  /\ audio = "pending" => ~beeper.on
  /\ audioDue' = NoDue
  /\ audio' = "none"
  /\ beeper' = IF audio = "pending" THEN NewBeeper(TRUE) ELSE beeper
  /\ UNCHANGED <<env, media, overlay, malformed, urls, cams, logs, halted, seenVisible, beepLeft,
                 shownAge, refs, fallRefs, ui, runtime, registry, history>>

\* The interval callback of startContinuousAlarm runs: past the duration it
\* clears the interval, else playAlarmSound starts an oscillator that stops
\* itself BEEP_MS later.
FallbackTick ==
  /\ beeper.on
  /\ beeper.next = 0
  /\ IF beeper.age > ALARM_CEILING_MS
       THEN beeper' = NoBeeper /\ UNCHANGED beepLeft
       ELSE /\ beeper' = [beeper EXCEPT !.next = BEEP_INTERVAL_MS]
            /\ beepLeft' = BEEP_MS
  /\ UNCHANGED <<env, media, overlay, malformed, urls, cams, logs, halted, seenVisible, audio, audioDue,
                 shownAge, refs, fallRefs, ui, runtime, registry, history>>

\* The clock advances by d once FallAlert's effect has run and every timer
\* of the cue that is due has fired.
AlarmTick(d) ==
  /\ seenVisible = showAlert
  /\ audioDue = NoDue \/ audioDue >= d
  /\ beeper.on => beeper.next >= d
  /\ Tick(d)

\* ------------------------------------------------------------------------
\* The session registry over several camera ids (streamSession.ts)
\* ------------------------------------------------------------------------
\* The two Maps of the module and the media their entries reference.
Registry ==
  [live |-> liveSessions, upload |-> uploadSessions, tracks |-> tracks,
   urls |-> objectUrls]

\* liveSessions.get(camId) / uploadSessions.get(camId); NoSession stands for
\* undefined.
getLiveSession(r, c) == r.live[c]
getUploadSession(r, c) == r.upload[c]

\* A setLiveAutoStart that writes the flag into an entry it creates.
setLiveAutoStartCreating(r, c, auto) ==
  [r EXCEPT !.live[c] = [r.live[c] EXCEPT !.autoStart = auto, !.present = TRUE]]

setLiveSession(r, c, session) == [r EXCEPT !.live[c] = session]

clearLiveSession(r, c) ==
  [r EXCEPT !.tracks = StreamsAfterClear(r.live[c], r.tracks),
            !.live[c] = NoSession]

setLiveAutoStart(r, c, auto) ==
  [r EXCEPT !.live[c] = SetAutoStart(r.live[c], auto)]

setUploadSession(r, c, session) == [r EXCEPT !.upload[c] = session]

clearUploadSession(r, c) ==
  [r EXCEPT !.urls = IF r.upload[c].present THEN r.urls \ {r.upload[c].videoUrl}
                     ELSE r.urls,
            !.upload[c] = NoSession]

setUploadAutoStart(r, c, auto) ==
  [r EXCEPT !.upload[c] = SetAutoStart(r.upload[c], auto)]

\* The ids getUserMedia and URL.createObjectURL can return: those of no
\* live or registered medium.
FreeStreamIds(r) == MediaIds \ (r.tracks \cup {r.live[c].stream : c \in Cams})
FreeUrlIds(r) == MediaIds \ (r.urls \cup {r.upload[c].videoUrl : c \in Cams})

\* existing?.stream ?? await getUserMedia(...) of startLive on camera c: the
\* stream it uses, and the registry with that stream's tracks live.
StreamFor(r, c) ==
  IF r.live[c].present THEN r.live[c].stream ELSE Lowest(FreeStreamIds(r))
Acquired(r, c) == [r EXCEPT !.tracks = @ \cup {StreamFor(r, c)}]

\* stopAll's calls into the registry.
StopAllIn(r, c) == setLiveAutoStart(clearLiveSession(r, c), c, FALSE)

\* The step writes r to the registry and nothing else.
Commit(r) ==
  /\ liveSessions' = r.live
  /\ uploadSessions' = r.upload
  /\ tracks' = r.tracks
  /\ objectUrls' = r.urls
  /\ UNCHANGED <<env, media, overlay, malformed, urls, alarm, logs, halted, refs, fallRefs, ui,
                 runtime, registry, history>>

\* A startLive on camera c that succeeds.
CamLiveStart(c) ==
  /\ Registry.live[c].present \/ FreeStreamIds(Registry) # {}
  /\ Commit(setLiveSession(Acquired(Registry, c), c,
                           SetLiveSession(StreamFor(Registry, c), TRUE)))

\* A startLive on camera c whose play() rejects after the stream was taken.
CamLiveStartFails(c) ==
  /\ Registry.live[c].present \/ FreeStreamIds(Registry) # {}
  /\ Commit(StopAllIn(Acquired(Registry, c), c))

\* Stop on the live tile of camera c.
CamLiveStop(c) ==
  /\ Registry.live[c].present
  /\ Commit(StopAllIn(Registry, c))

\* The live tile of camera c unmounts with the intent flag at flag.
CamLiveUnmount(c, flag) ==
  /\ Registry.live[c].present
  /\ Commit(setLiveAutoStart(Registry, c, flag))

\* onUpload on camera c, once its POST is answered; hadUrl is whether the
\* tile showed a video.
CamUpload(c, hadUrl) ==
  /\ FreeUrlIds(Registry) # {}
  /\ LET url == Lowest(FreeUrlIds(Registry))
         cleared == IF hadUrl THEN clearUploadSession(Registry, c) ELSE Registry
         created == [cleared EXCEPT !.urls = @ \cup {url}]
     IN Commit(setUploadSession(created, c,
                 [stream |-> 0, videoUrl |-> url, autoStart |-> TRUE,
                  present |-> TRUE]))

\* start and stop of the upload tile of camera c record autoStart.
CamUploadAuto(c, auto) ==
  /\ Registry.upload[c].present
  /\ Commit(setUploadAutoStart(Registry, c, auto))

\* The last statements of stop on the upload tile of camera c.
CamUploadClear(c) ==
  /\ Registry.upload[c].present
  /\ Commit(clearUploadSession(Registry, c))

\* ------------------------------------------------------------------------
\* The three metadata handlers, side by side
\* ------------------------------------------------------------------------
\* The callbacks passed to createInferSocket by startLive, by resumeLive and
\* by the upload tile's connectSocket, each on its own copy of the fall-alert
\* refs and of showAlert.
Handlers == {"startLive", "resumeLive", "connectSocket"}

\* The refs and the state of a new component instance.
FreshFall ==
  [tc |-> 0, fc |-> 0, ack |-> FALSE, lastAt |-> now - PopupHorizon,
   shown |-> FALSE, shownRef |-> FALSE]

\* A handler of the upload tile whose cooldown has passed at exactly 8000 ms.
onMetadataInclusive(f, fall) ==
  LET tc == IF fall THEN f.tc + 1
            ELSE IF f.fc + 1 >= FALL_FALSE_RESET THEN 0 ELSE f.tc
      fc == IF fall THEN 0 ELSE f.fc + 1
      ack == IF fall THEN f.ack
             ELSE IF f.fc + 1 >= FALL_FALSE_RESET THEN FALSE ELSE f.ack
      raise == tc >= FALL_TRUE_THRESHOLD /\ ~f.shownRef /\ ~ack
               /\ now - f.lastAt >= COOLDOWN_MS
  IN [tc |-> tc, fc |-> fc, ack |-> ack,
      lastAt |-> IF raise THEN now ELSE f.lastAt,
      shown |-> IF raise THEN TRUE ELSE f.shown, shownRef |-> f.shownRef]

\* A handler of startLive that starts fallFalseCount over when it reaches 3.
onMetadataWrapping(f, fall) ==
  LET tc == IF fall THEN f.tc + 1
            ELSE IF f.fc + 1 >= FALL_FALSE_RESET THEN 0 ELSE f.tc
      fc == IF fall THEN 0
            ELSE IF f.fc + 1 >= FALL_FALSE_RESET THEN 0 ELSE f.fc + 1
      ack == IF fall THEN f.ack
             ELSE IF f.fc + 1 >= FALL_FALSE_RESET THEN FALSE ELSE f.ack
      raise == tc >= FALL_TRUE_THRESHOLD /\ ~ack /\ ~f.shownRef
               /\ now - f.lastAt > COOLDOWN_MS
  IN [tc |-> tc, fc |-> fc, ack |-> ack,
      lastAt |-> IF raise THEN now ELSE f.lastAt,
      shown |-> IF raise THEN TRUE ELSE f.shown, shownRef |-> f.shownRef]

\* LiveCameraTile.tsx 129-150, the callback of startLive.
onMetadataStartLive(f, fall) ==
  LET tc == IF fall THEN f.tc + 1
            ELSE IF f.fc + 1 >= FALL_FALSE_RESET THEN 0 ELSE f.tc
      fc == IF fall THEN 0 ELSE f.fc + 1
      ack == IF fall THEN f.ack
             ELSE IF f.fc + 1 >= FALL_FALSE_RESET THEN FALSE ELSE f.ack
      cooldownPassed == now - f.lastAt > COOLDOWN_MS
      raise == tc >= FALL_TRUE_THRESHOLD /\ ~ack /\ ~f.shownRef /\ cooldownPassed
  IN [tc |-> tc, fc |-> fc, ack |-> ack,
      lastAt |-> IF raise THEN now ELSE f.lastAt,
      shown |-> IF raise THEN TRUE ELSE f.shown, shownRef |-> f.shownRef]

\* LiveCameraTile.tsx 187-208, the callback of resumeLive.
onMetadataResumeLive(f, fall) ==
  LET tc == IF fall THEN f.tc + 1
            ELSE IF f.fc + 1 >= FALL_FALSE_RESET THEN 0 ELSE f.tc
      fc == IF fall THEN 0 ELSE f.fc + 1
      ack == IF fall THEN f.ack
             ELSE IF f.fc + 1 >= FALL_FALSE_RESET THEN FALSE ELSE f.ack
      cooldownPassed == now - f.lastAt > COOLDOWN_MS
      raise == tc >= FALL_TRUE_THRESHOLD /\ ~ack /\ ~f.shownRef /\ cooldownPassed
  IN [tc |-> tc, fc |-> fc, ack |-> ack,
      lastAt |-> IF raise THEN now ELSE f.lastAt,
      shown |-> IF raise THEN TRUE ELSE f.shown, shownRef |-> f.shownRef]

\* Sidebar.tsx 502-526, the callback of connectSocket: the conjuncts of the
\* raise condition come in another order.
onMetadataConnectSocket(f, fall) ==
  LET tc == IF fall THEN f.tc + 1
            ELSE IF f.fc + 1 >= FALL_FALSE_RESET THEN 0 ELSE f.tc
      fc == IF fall THEN 0 ELSE f.fc + 1
      ack == IF fall THEN f.ack
             ELSE IF f.fc + 1 >= FALL_FALSE_RESET THEN FALSE ELSE f.ack
      cooldownPassed == now - f.lastAt > COOLDOWN_MS
      raise == tc >= FALL_TRUE_THRESHOLD /\ ~f.shownRef /\ ~ack /\ cooldownPassed
  IN [tc |-> tc, fc |-> fc, ack |-> ack,
      lastAt |-> IF raise THEN now ELSE f.lastAt,
      shown |-> IF raise THEN TRUE ELSE f.shown, shownRef |-> f.shownRef]

HandlerOf(h, f, fall) ==
  IF h = "startLive" THEN onMetadataStartLive(f, fall)
  ELSE IF h = "resumeLive" THEN onMetadataResumeLive(f, fall)
  ELSE onMetadataConnectSocket(f, fall)

\* The step changes the handlers' copies only.
TwinOnly ==
  UNCHANGED <<env, media, overlay, malformed, urls, alarm, cams, lastLabelAt,
              loggedAt, lastReply, halted, refs, fallRefs, ui, runtime, registry, history>>

\* The same reply reaches every handler.
TwinReply(fall) ==
  /\ \A h \in Handlers : twin[h].tc < MaxTwinCount /\ twin[h].fc < MaxTwinCount
  /\ twin' = [h \in Handlers |-> HandlerOf(h, twin[h], fall)]
  /\ TwinOnly

\* acknowledgeFall takes effect on every tile (the same code on both).
TwinAcknowledge ==
  /\ \E h \in Handlers : twin[h].shown
  /\ twin' = [h \in Handlers |->
                [twin[h] EXCEPT !.ack = TRUE, !.lastAt = now, !.shown = FALSE]]
  /\ TwinOnly

\* The effect showAlertRef.current = showAlert runs on every tile.
TwinSync ==
  /\ \E h \in Handlers : twin[h].shownRef # twin[h].shown
  /\ twin' = [h \in Handlers |-> [twin[h] EXCEPT !.shownRef = twin[h].shown]]
  /\ TwinOnly

\* d milliseconds pass.
TwinTick(d) ==
  /\ twin' = [h \in Handlers |->
                [twin[h] EXCEPT !.lastAt = Earlier(twin[h].lastAt, d, PopupHorizon)]]
  /\ TwinOnly

\* ------------------------------------------------------------------------
\* The log loop of the metadata handlers
\* ------------------------------------------------------------------------
\* The label lists a reply can carry in events and in dets.
LabelSeqs == UNION {[1..n -> Labels] : n \in 0..MaxDets}

\* A test that lets a label through once exactly 1500 ms have passed.
LogDueInclusive(t, lastAt) == t - lastAt >= LOG_INTERVAL_MS

\* now - lastAt > 1500
LogDue(t, lastAt) == t - lastAt > LOG_INTERVAL_MS

\* incoming.events && incoming.events.length > 0 ? incoming.events : incoming.dets
LogSource(events, detections) ==
  IF Len(events) > 0 THEN events ELSE detections

\* The for loop over the log source: at is lastLabelAtRef on entry, logged
\* the labels addLog was called for so far.
RECURSIVE LogLoop(_, _, _)
LogLoop(src, at, logged) ==
  IF src = <<>> THEN [at |-> at, logged |-> logged]
  ELSE IF LogDue(now, at[Head(src)])
         THEN LogLoop(Tail(src), [at EXCEPT ![Head(src)] = now],
                      logged \cup {Head(src)})
         ELSE LogLoop(Tail(src), at, logged)

\* The step changes the log state only.
LogOnly ==
  UNCHANGED <<env, media, overlay, malformed, urls, alarm, cams, twin, halted, refs,
              fallRefs, ui, runtime, registry, history>>

\* A reply with the given events and dets reaches the handler.
LogReply(events, detections) ==
  /\ lastReply.warm
  /\ LET out == LogLoop(LogSource(events, detections), lastLabelAt, {})
     IN /\ lastLabelAt' = out.at
        /\ loggedAt' = [l \in Labels |->
              IF l \in out.logged
                THEN [at |-> now, gap |-> now - loggedAt[l].at,
                      same |-> lastLabelAt[l] = loggedAt[l].at]
                ELSE loggedAt[l]]
        /\ lastReply' = [events |-> events, dets |-> detections, logged |-> out.logged,
                         seq |-> 1 - lastReply.seq, warm |-> TRUE]
  /\ LogOnly

\* The tile is unmounted and a new instance is mounted: useRef(new Map()).
LogRemount ==
  /\ lastReply.warm
  /\ lastLabelAt' = [l \in Labels |-> now - LogHorizon]
  /\ lastReply' = [NoReply EXCEPT !.seq = lastReply.seq, !.warm = FALSE]
  /\ UNCHANGED loggedAt
  /\ LogOnly

\* d milliseconds pass.
LogTick(d) ==
  /\ lastLabelAt' = [l \in Labels |-> Earlier(lastLabelAt[l], d, LogHorizon)]
  /\ loggedAt' = [l \in Labels |->
        [loggedAt[l] EXCEPT !.at = Earlier(loggedAt[l].at, d, LogHorizon)]]
  /\ lastReply' = [NoReply EXCEPT !.seq = lastReply.seq]
  /\ LogOnly

\* ------------------------------------------------------------------------
\* Specifications
\* ------------------------------------------------------------------------
Init ==
  /\ mode \in {"live", "upload"}
  /\ mounted = TRUE
  /\ tokenOk = TRUE
  /\ liveSessions = [c \in Cams |-> NoSession]
  /\ uploadSessions = [c \in Cams |-> NoSession]
  /\ tracks = {} /\ objectUrls = {}
  /\ twin = [h \in Handlers |-> FreshFall]
  /\ lastLabelAt = [l \in Labels |-> now - LogHorizon]
  /\ loggedAt = [l \in Labels |-> NeverLogged]
  /\ lastReply = NoReply
  /\ halted = FALSE
  /\ shouldRun = FALSE /\ awaitingResult = FALSE /\ lastSentAt = now - SentHorizon
  /\ wsRef = 0 /\ rafRef = 0 /\ mediaRef = 0
  /\ reconnectTimerRef = 0 /\ runningRef = FALSE
  /\ fallTrueCount = 0 /\ fallFalseCount = 0 /\ acknowledgedFall = FALSE
  /\ lastPopupAt = now - PopupHorizon /\ showAlertRef = FALSE
  /\ running = FALSE /\ showAlert = FALSE /\ metadata = "null"
  /\ error = FALSE /\ videoUrl = 0
  /\ sockets = [s \in Sockets |-> NoSocket]
  /\ loops = [i \in Loops |-> NoLoop]
  /\ timers = [t \in Timers |-> NoTimer]
  /\ starts = [k \in Starts |-> NoStart]
  /\ upload = NoUpload
  /\ acks = 0
  /\ stops = 0
  /\ liveSession = NoSession
  /\ uploadSession = NoSession
  /\ activeStreams = {}
  /\ raisedAt = now - PopupHorizon
  /\ ackedAt = now - PopupHorizon
  /\ stopped = FALSE
  /\ malformed = "none"
  /\ liveUrls = {}
  /\ uploadFailed = "no"
  /\ seenVisible = FALSE /\ audio = "none" /\ audioDue = NoDue
  /\ beeper = NoBeeper /\ beepLeft = 0 /\ shownAge = NoDue
  /\ mediaSize = DecodedSize
  /\ canvasSize = TileCanvas
  /\ dets = {} /\ frameSize = NoFrame
  /\ stickyDets = {} /\ stickyAt = now - STICKY_MS
  /\ painted = {}

\* The capture-send loop and the network.
LoopStep ==
  \/ \E i \in Loops : RafFire(i)
  \/ \E i \in Loops : EncodeDone(i)
  \/ \E s \in Sockets : Drain(s)
  \/ \E s \in Sockets : SocketOpens(s)
  \/ \E s \in Sockets : SocketCloses(s)

\* Lifecycle specification: every operation of both tiles except the fall
\* alert; the replies all carry fall_detected = false.
Next ==
  \/ LoopStep
  \/ \E s \in Sockets : ServerReply(s, FALSE, {}, NoFrame)
  \/ SyncRefs
  \/ StartLiveOnce
  \/ \E k \in Starts : GumResolves(k)
  \/ \E k \in Starts : PlayResolves(k)
  \/ \E k \in Starts : StartLiveFails(k)
  \/ StopLiveClick
  \/ UnmountLive
  \/ MountLive
  \/ \E k \in Starts : ResumeLiveTail(k)
  \/ StartUploadClick
  \/ StopUploadClick
  \/ StopUploadDone
  \/ UploadChoose
  \/ UploadDone
  \/ UploadFails
  \/ \E t \in Timers : ReconnectFires(t)
  \/ \E t \in Timers : UploadStartFires(t)
  \/ UnmountUpload
  \/ MountUpload
  \/ NewInstance
  \/ \E d \in TickSteps : Tick(d)

Spec == Init /\ [][Next]_vars

\* Fall-alert specification: a tile is started and left streaming, frames
\* are sent and answered with either value of fall_detected, and the operator
\* acknowledges; time passes in steps that reach the cooldown exactly and pass it.
FallNext ==
  \/ LoopStep
  \/ \E s \in Sockets, fall \in BOOLEAN : ServerReply(s, fall, {}, NoFrame)
  \/ AcknowledgeClick
  \/ AcknowledgeDone
  \/ SyncRefs
  \/ StartLiveOnce
  \/ \E k \in Starts : GumResolves(k)
  \/ \E k \in Starts : PlayResolves(k)
  \/ UploadChoose
  \/ UploadDone
  \/ \E t \in Timers : UploadStartFires(t)
  \/ \E d \in FallSteps : Tick(d)

SpecFall == Init /\ [][FallNext]_vars

\* Transport-error specification: a tile is started and left streaming while
\* the server answers with metadata or with messages that are not metadata,
\* the connection closes and the video's dimensions come and go.
ErrNext ==
  \/ LoopStep
  \/ \E s \in Sockets : ServerReply(s, FALSE, {}, NoFrame)
  \/ \E s \in Sockets, kind \in MalformedKinds : MalformedReply(s, kind)
  \/ \E size \in MediaSizes : MediaSizeChanges(size)
  \/ SyncRefs
  \/ StartLiveOnce
  \/ \E k \in Starts : GumResolves(k)
  \/ \E k \in Starts : PlayResolves(k)
  \/ UploadChoose
  \/ UploadDone
  \/ \E t \in Timers : UploadStartFires(t)
  \/ \E t \in Timers : ReconnectFires(t)
  \/ \E d \in TickSteps : Tick(d)

SpecErr == Init /\ [][ErrNext]_vars

\* A tick of chain i whose sendCanvasFrame, if it is called, reaches the
\* encoder; a resumption from the encoder that hands the frame to ws.send.
RafFireOk(i) ==
  /\ RafFire(i)
  /\ (lastSentAt' = now /\ lastSentAt # now) => loops'[i].pc = "encoding"

EncodeDoneOk(i) ==
  /\ EncodeDone(i)
  /\ sockets[loops[i].ws].st = "OPEN" =>
        sockets'[loops[i].ws].inflight > sockets[loops[i].ws].inflight

\* The closing handshake of socket s ends.
ClosingEnds(s) == sockets[s].st = "CLOSING" /\ SocketCloses(s)

\* Session-continuity specification: a live tile is started, its controller
\* is unmounted and mounted again (the same instance, or a new one after the
\* page was left), and encoding and sending do not fail.  The browser runs
\* every pending callback in the end: animation frames, settled promises,
\* the connection attempt, the end of a closing handshake, and the clock.
InitLive == Init /\ mode = "live"

ResumeNext ==
  \/ StartLiveOnce
  \/ \E k \in Starts : GumResolves(k)
  \/ \E k \in Starts : PlayResolves(k)
  \/ \E i \in Loops : RafFireOk(i)
  \/ \E i \in Loops : EncodeDoneOk(i)
  \/ \E s \in Sockets : Drain(s)
  \/ \E s \in Sockets : SocketOpens(s)
  \/ \E s \in Sockets : SocketCloses(s)
  \/ \E s \in Sockets : ServerReply(s, FALSE, {}, NoFrame)
  \/ UnmountLive
  \/ MountLive
  \/ \E k \in Starts : ResumeLiveTail(k)
  \/ NewInstance
  \/ \E d \in TickSteps : Tick(d)

ResumeFairness ==
  /\ \A k \in Starts : WF_vars(ResumeLiveTail(k))
  /\ \A i \in Loops : WF_vars(RafFireOk(i))
  /\ \A i \in Loops : WF_vars(EncodeDoneOk(i))
  /\ \A s \in Sockets : WF_vars(SocketOpens(s))
  /\ \A s \in Sockets : WF_vars(ClosingEnds(s))
  /\ WF_vars(\E d \in TickSteps : Tick(d))

SpecResume == InitLive /\ [][ResumeNext]_vars /\ ResumeFairness

\* Overlay specification: either tile is started, streams, and is stopped,
\* the replies carry detections or none, with or without a frame size, the
\* renderer's draw callback runs, and time passes in steps that reach
\* STICKY_MS exactly.
OverlayNext ==
  \/ LoopStep
  \/ \E s \in Sockets, fs \in {NoFrame, DecodedSize} :
        \E ds \in {{}, {FullFrame(FrameOf(fs))}} : ServerReply(s, FALSE, ds, fs)
  \/ SyncRefs
  \/ StartLiveOnce
  \/ \E k \in Starts : GumResolves(k)
  \/ \E k \in Starts : PlayResolves(k)
  \/ StopLiveClick
  \/ UploadChoose
  \/ UploadDone
  \/ \E t \in Timers : UploadStartFires(t)
  \/ StopUploadClick
  \/ StopUploadDone
  \/ DrawOverlay
  \/ \E d \in TickSteps : Tick(d)

SpecOverlay == Init /\ [][OverlayNext]_vars

\* Letterbox specification: a live tile streams without failing sends, the
\* replies carry detections over frames of several sizes, the <video> box
\* is resized, and the renderer's draw callback runs.
LetterboxNext ==
  \/ StartLiveOnce
  \/ \E k \in Starts : GumResolves(k)
  \/ \E k \in Starts : PlayResolves(k)
  \/ \E i \in Loops : RafFireOk(i)
  \/ \E i \in Loops : EncodeDoneOk(i)
  \/ \E s \in Sockets : Drain(s)
  \/ \E s \in Sockets : SocketOpens(s)
  \/ \E s \in Sockets, fs \in ReplyFrameSizes :
        \E ds \in DetSetsFor(FrameOf(fs)) : ServerReply(s, FALSE, ds, fs)
  \/ \E size \in CanvasSizes : ResizeCanvas(size)
  \/ DrawOverlay
  \/ \E d \in TickSteps : Tick(d)

SpecLetterbox == InitLive /\ [][LetterboxNext]_vars

\* Replace specification: an upload tile gets a file, is started and
\* stopped, and the file is replaced; the upload POST is answered with a
\* success status or an error status, or rejects.
InitUpload == Init /\ mode = "upload"

ReplaceNext ==
  \/ LoopStep
  \/ \E s \in Sockets : ServerReply(s, FALSE, {}, NoFrame)
  \/ SyncRefs
  \/ UploadChoose
  \/ \E ok \in BOOLEAN : UploadAnswered(ok)
  \/ UploadRejected
  \/ \E t \in Timers : UploadStartFires(t)
  \/ \E t \in Timers : ReconnectFires(t)
  \/ StartUploadClick
  \/ StopUploadClick
  \/ StopUploadDone
  \/ \E d \in TickSteps : Tick(d)

SpecReplace == InitUpload /\ [][ReplaceNext]_vars

\* Audio-cue specification: a live tile streams, the replies report a fall,
\* the alert is raised and acknowledged (or not), play() of the alarm file
\* resolves, rejects or stays pending, and the clock advances in steps that
\* meet every timer of the cue.
AlarmSteps == {100}

AlarmNext ==
  \/ StartLiveOnce
  \/ \E k \in Starts : GumResolves(k)
  \/ \E k \in Starts : PlayResolves(k)
  \/ \E i \in Loops : RafFireOk(i)
  \/ \E i \in Loops : EncodeDoneOk(i)
  \/ \E s \in Sockets : Drain(s)
  \/ \E s \in Sockets : SocketOpens(s)
  \/ \E s \in Sockets : ServerReply(s, TRUE, {}, NoFrame)
  \/ SyncRefs
  \/ AcknowledgeClick
  \/ AcknowledgeDone
  \/ AlarmEffect
  \/ AudioPlays
  \/ AudioRejected
  \/ AlarmTimeout
  \/ FallbackTick
  \/ \E d \in AlarmSteps : AlarmTick(d)

SpecAlarm == InitLive /\ [][AlarmNext]_vars

\* Credential specification: the tiles are started, stopped, unmounted and
\* mounted again, connections open and close, and the token expires at any
\* moment.
TokenNext ==
  \/ TokenExpires
  \/ StartLiveOnce
  \/ \E k \in Starts : GumResolves(k)
  \/ \E k \in Starts : PlayResolves(k)
  \/ StopLiveClick
  \/ UnmountLive
  \/ MountLive
  \/ \E k \in Starts : ResumeLiveTail(k)
  \/ UploadChoose
  \/ UploadDone
  \/ \E t \in Timers : UploadStartFires(t)
  \/ StartUploadClick
  \/ StopUploadClick
  \/ StopUploadDone
  \/ \E s \in Sockets : SocketOpens(s)
  \/ \E s \in Sockets : SocketCloses(s)
  \/ \E t \in Timers : ReconnectFires(t)
  \/ SyncRefs
  \/ \E d \in TickSteps : Tick(d)

SpecToken == Init /\ [][TokenNext]_vars

\* Registry specification: the tiles of several cameras start, stop, unmount,
\* upload and replace in any order.
RegistryNext ==
  \E c \in Cams :
    \/ CamLiveStart(c)
    \/ CamLiveStartFails(c)
    \/ CamLiveStop(c)
    \/ \E flag \in BOOLEAN : CamLiveUnmount(c, flag)
    \/ \E hadUrl \in BOOLEAN : CamUpload(c, hadUrl)
    \/ \E auto \in BOOLEAN : CamUploadAuto(c, auto)
    \/ CamUploadClear(c)

SpecRegistry == Init /\ [][RegistryNext]_vars

\* Handler specification: the three handlers are fed the same replies,
\* acknowledgments, commits and times.
TwinNext ==
  \/ \E fall \in BOOLEAN : TwinReply(fall)
  \/ TwinAcknowledge
  \/ TwinSync
  \/ \E d \in FallSteps : TwinTick(d)

SpecTwin == Init /\ [][TwinNext]_vars

\* Log specification: replies with any events and dets reach the handler of
\* one camera, time passes, and the tile is replaced by a new instance.
LogSteps == {500}

LogNext ==
  \/ \E events \in LabelSeqs, ds \in LabelSeqs : LogReply(events, ds)
  \/ LogRemount
  \/ \E d \in LogSteps : LogTick(d)

SpecLog == InitLive /\ [][LogNext]_vars

\* ------------------------------------------------------------------------
\* Properties of the capture-send loop
\* ------------------------------------------------------------------------
\* A tick of chain i hands a frame to sendCanvasFrame's encoder.
TickSends(i) == loops[i].pc # "encoding" /\ loops'[i].pc = "encoding"

\* The five gates of section 4.2, on the state the tick runs in.
FiveGates ==
  /\ shouldRun
  /\ wsRef # 0
  /\ sockets[wsRef].st = "OPEN"
  /\ now - lastSentAt >= SEND_INTERVAL_MS
  /\ ~awaitingResult
  /\ sockets[wsRef].buffered < BUFFER_CEILING

\* Socket s transmits a frame in this step.
Transmits(s) == sockets'[s].inflight > sockets[s].inflight

\* C1: a tick of the capture-send loop sends a frame only if the five gates
\* hold in the state it runs in (intent flag set, socket OPEN, at least 200 ms
\* since the last send, no reply awaited, buffered amount below 256000), and
\* a frame goes on the wire only from a tick that passed them: on the socket
\* that tick held, out of its suspension in the encoder.
C1_SendOnlyThroughGates ==
  [][/\ \A i \in Loops : TickSends(i) => FiveGates /\ loops'[i].ws = wsRef
     /\ \A s \in Sockets : Transmits(s) =>
           \E i \in Loops : loops[i].pc = "encoding" /\ loops[i].ws = s]_vars

\* C1 witness: a tick passed the gates and its frame is on the wire, unanswered.
C1_Witness ==
  /\ shouldRun /\ wsRef # 0 /\ awaitingResult
  /\ sockets[wsRef].st = "OPEN"
  /\ sockets[wsRef].inflight = 1
  /\ lastSentAt = now

RECURSIVE InflightOn(_)
\* The frames transmitted on the sockets of S and neither answered nor lost
\* with their connection.
InflightOn(S) ==
  IF S = {} THEN 0
  ELSE LET s == Lowest(S) IN sockets[s].inflight + InflightOn(S \ {s})

Unanswered == InflightOn(Sockets)

\* C2: in every reachable state at most one transmitted frame is unanswered.
C2_AtMostOneUnanswered == Unanswered <= 1

\* ------------------------------------------------------------------------
\* Properties of the fall alert
\* ------------------------------------------------------------------------
\* This step is the callback of a reply with fall_detected true / false: only
\* a reply increments a counter.
TrueReply == fallTrueCount' = fallTrueCount + 1
FalseReply == fallFalseCount' = fallFalseCount + 1

\* This step raises the alert.
Raises == ~showAlert /\ showAlert'

\* This step completes an acknowledgment.
Acknowledges == acks' < acks \/ (~tokenOk /\ showAlert /\ acknowledgedFall' /\ ~showAlert')

\* C3: from fallTrueCount = 0, not acknowledged, alert not showing and more
\* than the cooldown since the last show, two true replies in a row raise the
\* alert on the second.  The state before the second reply has
\* fallTrueCount = 1 and fallFalseCount = 0 exactly when the reply before it
\* was a true one that found the count at 0.
C3_TwoTruesRaise ==
  [][(/\ TrueReply
      /\ fallTrueCount = 1 /\ fallFalseCount = 0
      /\ ~acknowledgedFall /\ ~showAlert
      /\ now - lastPopupAt > COOLDOWN_MS)
     => showAlert' /\ lastPopupAt' = now]_vars

\* C3 witness: the alert is up, raised at this instant by the second true reply.
C3_Witness ==
  /\ showAlert /\ metadata = "fall"
  /\ fallTrueCount = FALL_TRUE_THRESHOLD /\ fallFalseCount = 0
  /\ raisedAt = now /\ lastPopupAt = now

\* C4: the third of three consecutive false replies leaves fallTrueCount = 0
\* and the acknowledged flag false, whatever they were before.
C4_ThreeFalsesReset ==
  [][(FalseReply /\ fallFalseCount >= FALL_FALSE_RESET - 1)
     => fallTrueCount' = 0 /\ ~acknowledgedFall']_vars

\* C4 witness: three false replies in a row have arrived after an
\* acknowledgment (an acknowledgment later than the third would have left the
\* flag set), and the count and the flag are reset.
C4_Witness ==
  /\ fallFalseCount = FALL_FALSE_RESET /\ metadata = "clear"
  /\ fallTrueCount = 0 /\ ~acknowledgedFall
  /\ ackedAt > now - PopupHorizon

\* C5: a raise comes more than 8000 ms after the raise before it.
C5_RaisesApart == [][Raises => now - raisedAt > COOLDOWN_MS]_vars

\* C5 witness: the alert has just been raised again, 8100 ms after the
\* operator acknowledged the raise before.
C5_Witness ==
  /\ showAlert /\ raisedAt = now
  /\ ackedAt = now - (COOLDOWN_MS + 100)

\* C6 as stated: on each reply the alert is raised iff, after the counters
\* are updated, fallTrueCount >= 2, the alert is not showing, acknowledged is
\* false and at least 8000 ms have elapsed since the last show; a raise
\* records the current time.
C6_RaiseIffAtLeastCooldown ==
  [][(TrueReply \/ FalseReply) =>
       /\ Raises <=> (/\ fallTrueCount' >= FALL_TRUE_THRESHOLD
                      /\ ~showAlert
                      /\ ~acknowledgedFall'
                      /\ now - lastPopupAt >= COOLDOWN_MS)
       /\ Raises => lastPopupAt' = now]_vars

\* C6 amended: the same with more than 8000 ms elapsed since the last show,
\* so that a reply exactly 8000 ms after it does not raise the alert.
C6_RaiseIffCooldownPassed ==
  [][(TrueReply \/ FalseReply) =>
       /\ Raises <=> (/\ fallTrueCount' >= FALL_TRUE_THRESHOLD
                      /\ ~showAlert
                      /\ ~acknowledgedFall'
                      /\ now - lastPopupAt > COOLDOWN_MS)
       /\ Raises => lastPopupAt' = now]_vars

\* C6 witness: a true reply found the count at 2 or more, no acknowledgment
\* and no alert, exactly 8000 ms after the last show, and raised nothing.
C6_Witness ==
  /\ metadata = "fall" /\ fallTrueCount >= FALL_TRUE_THRESHOLD
  /\ ~acknowledgedFall /\ ~showAlert /\ ~showAlertRef
  /\ lastPopupAt = now - COOLDOWN_MS

\* C7: an acknowledgment hides the alert, sets the acknowledged flag and sets
\* the last-shown timestamp to its own time, and no alert is raised within
\* 8000 ms after an acknowledgment.
C7_AcknowledgeStartsCooldown ==
  [][/\ Acknowledges =>
          ~showAlert' /\ acknowledgedFall' /\ lastPopupAt' = now /\ ackedAt' = now
     /\ Raises => now - ackedAt > COOLDOWN_MS]_vars

\* C7 witness: 4000 ms after an acknowledgment the flag has been reset by
\* three false replies and true replies have brought the count to 2 again,
\* and no alert is up.
C7_Witness ==
  /\ metadata = "fall" /\ fallTrueCount >= FALL_TRUE_THRESHOLD
  /\ ~acknowledgedFall /\ ~showAlert /\ ~showAlertRef
  /\ ackedAt = now - 4000 /\ lastPopupAt = ackedAt

\* C8: a new run of true replies that follows the reset by three false
\* replies (its first reply found fallTrueCount at 0) raises the alert on its
\* second reply once the cooldown has elapsed and no alert is showing,
\* whenever the operator acknowledged the earlier fall.
C8_LaterFallRaises ==
  [][(/\ TrueReply
      /\ fallTrueCount = 1 /\ fallFalseCount = 0
      /\ ~showAlert /\ ~showAlertRef
      /\ now - lastPopupAt > COOLDOWN_MS)
     => showAlert']_vars

\* C9: the alert is raised only by a true reply that directly follows a true
\* reply.
C9_RaiseOnlyInARun ==
  [][Raises => fallFalseCount = 0 /\ fallTrueCount >= 1]_vars

\* ------------------------------------------------------------------------
\* Properties of teardown
\* ------------------------------------------------------------------------
\* This step opens a connection.
Connects == \E s \in Sockets : sockets[s].st # "CONNECTING" /\ sockets'[s].st = "CONNECTING"

\* This step runs the close callback of a socket.
CloseCallback == \E s \in Sockets : sockets[s].st # "CLOSED" /\ sockets'[s].st = "CLOSED"

\* C10: once the tile is stopped or torn down, and until the operator starts
\* it or it is mounted again, no frame is transmitted, no connection is
\* opened, the intent flag stays clear, no chain is left scheduled by a tick,
\* and no metadata or close callback changes the counters, the alert, the
\* awaiting flag or the latest metadata.
C10_NothingAfterTeardown ==
  [][(stopped /\ stopped') =>
       /\ \A s \in Sockets : ~Transmits(s)
       /\ ~Connects
       /\ ~shouldRun'
       /\ \A i \in Loops : loops[i].pc = "raf" => loops'[i].pc # "raf"
       /\ (TrueReply \/ FalseReply \/ CloseCallback) =>
             UNCHANGED <<fallTrueCount, fallFalseCount, acknowledgedFall,
                         showAlert, awaitingResult, metadata>>]_vars

\* ------------------------------------------------------------------------
\* Properties of Stop, reconnection and the connections of a tile
\* ------------------------------------------------------------------------
\* This step is the operator's Stop on the live tile, run to its end apart
\* from the POST nothing follows.
StopCompletes == mode = "live" /\ mounted /\ mounted' /\ ~stopped /\ stopped'

\* C11: after Stop on a live tile every device stream the tile acquired has
\* its tracks stopped (one acquired by a Start that then failed included),
\* and the registry holds no entry for the camera with autoStart set.
C11_StopReleasesMedia ==
  [][StopCompletes =>
       /\ activeStreams' = {}
       /\ ~(liveSession'.present /\ liveSession'.autoStart)]_vars

\* The connection the tile references closes in this step while the intent
\* flag is set.
IntentCloses(s) ==
  /\ s = wsRef /\ shouldRun
  /\ sockets[s].st # "CLOSED" /\ sockets'[s].st = "CLOSED"

\* This step schedules a reconnect attempt RECONNECT_DELAY_MS from now.
SchedulesReconnect ==
  \E t \in Timers :
    /\ timers'[t] = [kind |-> "reconnect", due |-> now + RECONNECT_DELAY_MS]
    /\ timers[t] # timers'[t]

\* C13: in the live and in the upload tile, every close of the connection
\* while the intent flag is set schedules a reconnect attempt 600 ms later,
\* and no reconnect is scheduled while the intent flag is clear.
C13_CloseSchedulesReconnect ==
  [][/\ (\E s \in Sockets : IntentCloses(s)) => SchedulesReconnect
     /\ SchedulesReconnect => shouldRun]_vars

\* The connections that are connecting or open.
LiveConnections == {s \in Sockets : sockets[s].st \in {"CONNECTING", "OPEN"}}

\* C14: at any instant a tile has at most one connection that is connecting
\* or open, and it is the one the tile references.
C14_OneConnection ==
  /\ Cardinality(LiveConnections) <= 1
  /\ \A s \in LiveConnections : s = wsRef

\* ------------------------------------------------------------------------
\* Properties of failed sends
\* ------------------------------------------------------------------------
\* A tick passes the gates in this step: only frameLoop stamps lastSentAtRef
\* with the present.
AttemptStarts == lastSentAt # now /\ lastSentAt' = now

\* The send attempt of this step's tick ends before the encoder (no drawing
\* context, zero dimensions, or drawing throws).
AttemptAborts == AttemptStarts /\ \A i \in Loops : ~TickSends(i)

\* The send attempt suspended in the encoder ends in this step without a
\* frame on the wire (no blob, a socket that is no longer open, or a throw).
AttemptEndsUnsent(i) ==
  /\ loops[i].pc = "encoding" /\ loops'[i].pc # "encoding"
  /\ ~Transmits(loops[i].ws)

\* C17: a send attempt that puts no frame on the wire leaves the chain
\* scheduled and awaitingResult clear.
C17_FailedSendClearsAwaiting ==
  [][/\ AttemptAborts => ~awaitingResult' /\ rafRef' # 0
     /\ \A i \in Loops :
          AttemptEndsUnsent(i) => ~awaitingResult' /\ loops'[i].pc = "raf"]_vars

\* ------------------------------------------------------------------------
\* Properties of malformed replies and of undecoded video
\* ------------------------------------------------------------------------
\* A socket delivers a message in this step (a delivery answers a frame and
\* leaves the socket open), and the message is not metadata.
Delivers == \E s \in Sockets :
  sockets'[s].inflight < sockets[s].inflight /\ sockets'[s].st = "OPEN"
MalformedStep == Delivers /\ malformed' # "none"
UnparsableStep == Delivers /\ malformed' = "notJson"

\* C15: a message that cannot be parsed as metadata is dropped with no
\* effect: the fall counters, the acknowledged flag, the alert and the latest
\* metadata are as they were.
C15_MalformedDropped ==
  [][MalformedStep =>
       UNCHANGED <<fallTrueCount, fallFalseCount, acknowledgedFall, showAlert,
                   metadata, dets, frameSize>>]_vars

\* C16: a reply that fails to parse clears awaitingResult like every other
\* transient transport error, so that the loop can send again on the open
\* connection.
C16_ParseFailureClearsAwaiting ==
  [][UnparsableStep => ~awaitingResult']_vars

\* C18: while the video has zero width or height a tick that passes the
\* gates is a no-op: no step stamps lastSentAt or sets awaitingResult.
C18_ZeroDimensionsNoOp ==
  [][IsZero(mediaSize) =>
       /\ ~AttemptStarts
       /\ awaitingResult' => awaitingResult]_vars

\* ------------------------------------------------------------------------
\* Properties of session continuity
\* ------------------------------------------------------------------------
\* This step mounts the live tile while the registry holds an entry with
\* autoStart set; this step runs the rest of resumeLive.
ResumeMount ==
  /\ mode = "live" /\ ~mounted /\ mounted'
  /\ liveSession.present /\ liveSession.autoStart
ResumeTail == \E k \in Starts : starts[k].pc = "resume" /\ starts'[k].pc = "idle"

\* resumeLive is suspended at video.play() with the runtime still detached
\* and no frame on the wire.
Resuming ==
  /\ mounted /\ wsRef = 0 /\ Unanswered = 0
  /\ \E k \in Starts : starts[k].pc = "resume"

\* A frame is on the wire; the connection the tile references is gone.
FrameOnWire == Unanswered > 0
ConnectionLost == wsRef # 0 /\ sockets[wsRef].st \notin {"CONNECTING", "OPEN"}

StickyAge == now - stickyAt

\* C19: whatever draw() paints is the last non-empty detection list and that
\* list is younger than 600 ms: once 600 ms have passed since the last
\* non-empty reply, draw() paints nothing, whether the following replies were
\* empty, none came, or the tile was stopped.
C19_StickyExpires ==
  (VideoPresent /\ Drawn # {}) =>
      /\ StickyAge < STICKY_MS
      /\ DetsToDraw = stickyDets

\* ------------------------------------------------------------------------
\* Letterbox
\* ------------------------------------------------------------------------
\* The draw rectangle of the present canvas and source frame.
DrawRect == Letterbox(canvasSize, SourceSize)

\* The rectangle rect lies inside the canvas, has the aspect ratio of the
\* source frame, touches two opposite canvas edges and is centred.
FitsCentred(rect, canvas, source) ==
  LET cw == Whole(canvas[1])
      ch == Whole(canvas[2])
  IN /\ ~Greater(rect.drawW, cw) /\ ~Greater(rect.drawH, ch)
     /\ Greater(rect.drawW, Whole(0)) /\ Greater(rect.drawH, Whole(0))
     /\ rect.drawW = cw \/ rect.drawH = ch
     /\ Times(rect.drawW, Whole(source[2])) = Times(rect.drawH, Whole(source[1]))
     /\ Plus(Times(Whole(2), rect.drawX), rect.drawW) = cw
     /\ Plus(Times(Whole(2), rect.drawY), rect.drawH) = ch

\* What strokeRect receives for a detection that spans the draw rectangle.
WholeRect(rect) ==
  [x |-> rect.drawX, y |-> rect.drawY, w |-> rect.drawW, h |-> rect.drawH]

\* C20: a 1920x1080 source in an 800x800 canvas gets the draw rectangle
\* 800 wide, 450 high, at horizontal offset 0 and vertical offset 175; every
\* draw rectangle fits the canvas, keeps the source's aspect ratio and is
\* centred; and a detection spanning the whole source frame is drawn as the
\* draw rectangle itself.
C20_Letterbox ==
  (VideoPresent /\ ~IsZero(SourceSize)) =>
      /\ (canvasSize = <<800, 800>> /\ SourceSize = <<1920, 1080>>) =>
            DrawRect = [drawW |-> Whole(800), drawH |-> Whole(450),
                        drawX |-> Whole(0), drawY |-> Whole(175)]
      /\ FitsCentred(DrawRect, canvasSize, SourceSize)
      /\ \A d \in DetsToDraw :
            d = FullFrame(SourceSize) =>
               /\ DrawBox(d, DrawRect, SourceSize) = WholeRect(DrawRect)
               /\ WholeRect(DrawRect) \in Drawn

\* draw() has painted the full-frame detection of a 1920x1080 source on an
\* 800x800 canvas, as the rectangle 800x450 at (0, 175).
C20_Witness ==
  /\ canvasSize = <<800, 800>>
  /\ SourceSize = <<1920, 1080>>
  /\ FullFrame(SourceSize) \in DetsToDraw
  /\ [x |-> Whole(0), y |-> Whole(175), w |-> Whole(800), h |-> Whole(450)] \in painted

\* ------------------------------------------------------------------------
\* Source frame size of the overlay
\* ------------------------------------------------------------------------
\* The latest metadata names the width (the height) of its frame.
DeclaresWidth == frameSize[1] # Absent
DeclaresHeight == frameSize[2] # Absent

\* C21: draw() scales against the width and the height the latest metadata
\* declares, takes the video's own width or height only for the one the
\* metadata leaves out, and paints nothing when the resulting width or
\* height is 0.
C21_DeclaredFrameSize ==
  VideoPresent =>
      /\ DeclaresWidth => SourceSize[1] = frameSize[1]
      /\ DeclaresHeight => SourceSize[2] = frameSize[2]
      /\ ~DeclaresWidth => SourceSize[1] = VideoDims[1]
      /\ ~DeclaresHeight => SourceSize[2] = VideoDims[2]
      /\ (SourceSize[1] = 0 \/ SourceSize[2] = 0) => Drawn = {}
      /\ (SourceSize[1] # 0 /\ SourceSize[2] # 0) =>
            \A d \in DetsToDraw :
               DrawBox(d, Letterbox(canvasSize, SourceSize), SourceSize) \in Drawn

\* draw() has painted a detection of a reply about a 640x480 frame over a
\* video of another size, scaled against 640x480.
C21_Witness ==
  /\ frameSize = <<640, 480>>
  /\ VideoDims = DecodedSize
  /\ dets # {}
  /\ painted = {DrawBox(d, Letterbox(canvasSize, <<640, 480>>), <<640, 480>>) : d \in dets}

\* ------------------------------------------------------------------------
\* Failed Start
\* ------------------------------------------------------------------------
\* The invocation k of startLive ends in its catch block.
StartFails(k) ==
  /\ starts[k].pc \in {"gum", "play"}
  /\ starts'[k].pc = "idle"
  /\ error'

\* The stream the invocation k obtained from getUserMedia, if it did.
AcquiredBy(k) ==
  IF starts[k].pc = "play" /\ ~(liveSession.present /\ liveSession.stream = starts[k].stream)
    THEN {starts[k].stream} ELSE {}

\* C22: a Start that fails at getUserMedia or at video.play() leaves the tile
\* force-stopped: intent flag false, not running, no connection connecting
\* or open, no tick scheduled, no registry entry, and no track of a stream
\* acquired by that Start still live.
C22_FailedStartForceStops ==
  [][\A k \in Starts :
        StartFails(k) =>
           /\ ~shouldRun' /\ ~running'
           /\ wsRef' = 0
           /\ \A s \in Sockets : sockets'[s].st \in {"CONNECTING", "OPEN"} => sockets[s].st \in {"CONNECTING", "OPEN"} /\ s # wsRef
           /\ rafRef' = 0
           /\ ~liveSession'.present
           /\ AcquiredBy(k) \cap activeStreams' = {}]_vars

\* ------------------------------------------------------------------------
\* Successful Start
\* ------------------------------------------------------------------------
\* A Start takes effect: startLive passes video.play(), or start() or the
\* timer of onUpload sets the intent flag.  (resumeLive is not a Start.)
StartSucceeds ==
  /\ ~shouldRun /\ shouldRun'
  /\ \A k \in Starts : starts[k].pc # "resume"

\* The registry entry of the tile's camera, and the media the tile shows.
Entry == IF mode = "live" THEN liveSession ELSE uploadSession
RegisteredMedia == IF mode = "live" THEN liveSession.stream ELSE uploadSession.videoUrl
MediaInUse == IF mode = "live" THEN mediaRef ELSE videoUrl

\* The sockets a step opens.
Opened == {s \in Sockets : sockets[s].st # "CONNECTING" /\ sockets'[s].st = "CONNECTING"}

\* C23: the step in which a Start takes effect leaves the intent flag set, a
\* registry entry with autoStart for the media in use, exactly one newly
\* opened connection, held by the tile, and a scheduled tick; that step
\* itself captures and sends no frame, and a tick captures a frame only with
\* the intent flag set.
C23_StartEstablishes ==
  [][/\ StartSucceeds =>
          /\ Entry'.present /\ Entry'.autoStart
          /\ MediaInUse' # 0 /\ RegisteredMedia' = MediaInUse'
          /\ Cardinality(Opened) = 1 /\ wsRef' \in Opened
          /\ rafRef' # 0 /\ loops'[rafRef'].pc = "raf"
     /\ StartSucceeds =>
          /\ \A i \in Loops : ~TickSends(i)
          /\ \A s \in Sockets : ~Transmits(s)
     /\ (\E i \in Loops : TickSends(i)) => shouldRun]_vars

\* ------------------------------------------------------------------------
\* Replacing the uploaded file
\* ------------------------------------------------------------------------
\* The POST of an onUpload that was called on a tile showing a video settles.
ReplaceSettles == upload.pc = "post" /\ upload.hadUrl /\ upload'.pc = "idle"

\* The timer of onUpload fires.
ReplaceTimerFires ==
  \E t \in Timers : timers[t].kind = "uploadStart" /\ timers'[t].kind = "none"

\* C24: a Replace whose upload succeeded leaves the registry entry on a new
\* object URL, which the tile shows, with every older URL revoked, and the
\* tile is running once the timer of the Replace has fired; a Replace whose
\* upload failed leaves the entry, the shown video and the live URLs as
\* they were.
C24_ReplaceSwapsMedia ==
  [][/\ (ReplaceSettles /\ uploadFailed' = "no") =>
          /\ uploadSession'.present
          /\ uploadSession'.videoUrl = videoUrl'
          /\ videoUrl' \notin {0, videoUrl, uploadSession.videoUrl}
          /\ liveUrls' = {videoUrl'}
     /\ (ReplaceSettles /\ uploadFailed' # "no") =>
          UNCHANGED <<uploadSession, videoUrl, liveUrls>>
     /\ ReplaceTimerFires => shouldRun' /\ running']_vars

\* ------------------------------------------------------------------------
\* Stop and the transient state
\* ------------------------------------------------------------------------
\* The operator's Stop runs on a mounted tile of either kind.
StopRuns == mounted /\ mounted' /\ ~stopped /\ stopped'

\* C25: Stop leaves awaitingResult false, both fall counters 0, the
\* acknowledgment flag false and the time of the last alert cleared, as they
\* are after construction.
C25_StopResetsRuntime ==
  [][StopRuns =>
        /\ ~awaitingResult'
        /\ fallTrueCount' = 0 /\ fallFalseCount' = 0
        /\ ~acknowledgedFall'
        /\ lastPopupAt' = now - PopupHorizon]_vars

\* ------------------------------------------------------------------------
\* The audio cue
\* ------------------------------------------------------------------------
\* C26: while the alert is visible and younger than 10 s a cue is under way
\* (the looping audio, or the fallback interval), and nothing of it sounds
\* later than 10 s after the alert became visible: the audio is not playing
\* past that time, and a beep that sounds has ended by then.
C26_CueEndsAfterCeiling ==
  /\ (seenVisible /\ showAlert /\ shownAge < ALARM_CEILING_MS) =>
        (audio # "none" \/ beeper.on)
  /\ audio = "playing" => shownAge <= ALARM_CEILING_MS
  /\ beepLeft > 0 => shownAge + beepLeft <= ALARM_CEILING_MS

\* ------------------------------------------------------------------------
\* Best-effort notifications
\* ------------------------------------------------------------------------
\* The operator acknowledges and a POST is issued.
AcknowledgePosts == acks' > acks

\* The local effects of an acknowledgment are in place after the step.
AcknowledgedLocally ==
  /\ ~showAlert'
  /\ acknowledgedFall'
  /\ lastPopupAt' = now

\* C27: the acknowledge POST is fire-and-forget: the step that issues it
\* also hides the alert, sets acknowledged and refreshes last-shown, so that
\* the local state does not depend on how, or whether, the POST settles; and
\* a POST that settles leaves these effects in place.
C27_AcknowledgeFireAndForget ==
  [][/\ AcknowledgePosts => AcknowledgedLocally
     /\ acks' < acks => AcknowledgedLocally]_vars

\* The connection the tile held is closed and no longer held.
ConnectionClosed ==
  /\ wsRef' = 0
  /\ wsRef # 0 => sockets'[wsRef].st \in {"CLOSING", "CLOSED"}

\* The registered media is released: the tracks of the registered stream
\* are stopped, or the registered object URL is revoked, and the entry is
\* gone from the registry.
MediaReleased ==
  /\ ~Entry'.present
  /\ Entry.present =>
       IF mode = "live" THEN Entry.stream \notin activeStreams'
                        ELSE Entry.videoUrl \notin liveUrls'

\* C28: the step in which Stop is pressed, whatever becomes of the POST it
\* issues, leaves the intent flag cleared, the connection closed, the media
\* released and removed from the registry, and no autoResume.
C28_StopIsBestEffort ==
  [][StopRuns =>
       /\ ~shouldRun'
       /\ ConnectionClosed
       /\ MediaReleased
       /\ ~Entry'.autoStart]_vars

\* ------------------------------------------------------------------------
\* Credentials
\* ------------------------------------------------------------------------
\* C29: while the token is missing or expired no step opens a connection
\* (neither Start, nor the resume after a remount, nor a reconnect), and no
\* step sets the intent flag or brings the tile into the running state.
C29_NoOpenWithoutToken ==
  [][~tokenOk =>
       /\ Opened = {}
       /\ ~shouldRun => ~shouldRun'
       /\ ~running => ~running']_vars

\* ------------------------------------------------------------------------
\* The registry across camera ids
\* ------------------------------------------------------------------------
\* The entries of every camera id but c, and the media they reference, are
\* after the step what they were before it.
OthersKept(c) ==
  \A d \in Cams \ {c} :
    /\ liveSessions'[d] = liveSessions[d]
    /\ uploadSessions'[d] = uploadSessions[d]
    /\ liveSessions[d].present =>
         (liveSessions[d].stream \in tracks' <=> liveSessions[d].stream \in tracks)
    /\ uploadSessions[d].present =>
         (uploadSessions[d].videoUrl \in objectUrls'
            <=> uploadSessions[d].videoUrl \in objectUrls)

\* A step touches the live entries and streams, or the upload entries and
\* object URLs, not both.
KindsApart ==
  \/ liveSessions' = liveSessions /\ tracks' = tracks
  \/ uploadSessions' = uploadSessions /\ objectUrls' = objectUrls

\* C30: every step on the registry belongs to one camera id and one kind of
\* entry: the live and upload entries of every other camera id, and their
\* media, are unchanged, and an operation on the live entries leaves the
\* upload entries and object URLs alone and conversely.
C30_CamerasIndependent ==
  [][(\E c \in Cams : OthersKept(c)) /\ KindsApart]_vars

\* C30 witness: camera 1 was started, unmounted without intent and given an
\* upload while camera 2 keeps its live entry with autoStart and a live stream.
C30_Witness ==
  /\ liveSessions[1].present /\ ~liveSessions[1].autoStart
  /\ uploadSessions[1].present
  /\ liveSessions[2].present /\ liveSessions[2].autoStart
  /\ liveSessions[2].stream \in tracks
  /\ liveSessions[2].stream # liveSessions[1].stream

\* ------------------------------------------------------------------------
\* The handlers of the two tiles
\* ------------------------------------------------------------------------
\* C31: fed the same replies, acknowledgments, commits and times, the
\* handlers of startLive, of resumeLive and of connectSocket have the same
\* fallTrueCount, fallFalseCount, acknowledged flag, last-shown time and
\* alert visibility after every step.
C31_HandlersAgree ==
  \A g, h \in Handlers : twin[g] = twin[h]

\* C31 witness: every handler has raised the alert one second ago and the
\* commit has copied the visibility into its ref.
C31_Witness ==
  \A h \in Handlers :
    /\ twin[h].shown /\ twin[h].shownRef
    /\ twin[h].fc = 0 /\ ~twin[h].ack
    /\ twin[h].lastAt = now - 1000

\* ------------------------------------------------------------------------
\* The log
\* ------------------------------------------------------------------------
\* The labels of a list.
LabelsOf(src) == {src[i] : i \in 1..Len(src)}

\* The handler ran on a reply in this step.
Replies == lastReply'.seq # lastReply.seq

\* The log rule on the reply the step ran on: the source is events when it is
\* non-empty and dets otherwise; a label is logged iff it is in the source and
\* more than 1500 ms have passed since this instance logged it; logging it
\* records the present for it, and no other timestamp changes.
LogRule ==
  LET src == IF lastReply'.events # <<>> THEN lastReply'.events ELSE lastReply'.dets
  IN \A l \in Labels :
       /\ l \in lastReply'.logged <=>
            (l \in LabelsOf(src) /\ now - lastLabelAt[l] > LOG_INTERVAL_MS)
       /\ lastLabelAt'[l] = IF l \in lastReply'.logged THEN now ELSE lastLabelAt[l]

\* C32 as stated: the log rule, and two log entries for the same camera and
\* label are never 1500 ms or less apart.
C32_LogEntriesApart ==
  /\ [][Replies => LogRule]_vars
  /\ [](\A l \in Labels : loggedAt[l].gap > LOG_INTERVAL_MS)

\* C32, amended: the log rule, and two log entries for the same camera and
\* label made by one tile instance are never 1500 ms or less apart.
C32_LogEntriesApartPerInstance ==
  /\ [][Replies => LogRule]_vars
  /\ [](\A l \in Labels : loggedAt[l].same => loggedAt[l].gap > LOG_INTERVAL_MS)

\* C32 witness: a label was logged a second time by the same instance, 2000 ms
\* after the first, on a reply whose events were empty.
C32_Witness ==
  \E l \in Labels :
    /\ loggedAt[l].same /\ loggedAt[l].gap = LOG_INTERVAL_MS + 500
    /\ l \in lastReply.logged /\ lastReply.events = <<>>

\* ------------------------------------------------------------------------
\* The counters, reply by reply
\* ------------------------------------------------------------------------
\* The step changes a counter of handler h; it is a true reply, a false one.
TwinCounts(h) == twin'[h].tc # twin[h].tc \/ twin'[h].fc # twin[h].fc
TwinTrue(h) == twin'[h].tc = twin[h].tc + 1
TwinFalse(h) == twin'[h].fc = twin[h].fc + 1

\* C33: a step that changes a counter is a reply that either increments
\* fallTrueCount by 1 and sets fallFalseCount to 0, or increments
\* fallFalseCount by 1; the latter leaves fallTrueCount and acknowledged as
\* they are unless the incremented fallFalseCount is at least 3, and then
\* resets both, on the third false reply and on every one after it.
C33_CounterRule ==
  [][\A h \in Handlers :
       /\ TwinCounts(h) => TwinTrue(h) \/ TwinFalse(h)
       /\ TwinTrue(h) => twin'[h].fc = 0 /\ twin'[h].ack = twin[h].ack
       /\ TwinFalse(h) =>
            IF twin[h].fc + 1 >= FALL_FALSE_RESET
              THEN twin'[h].tc = 0 /\ ~twin'[h].ack
              ELSE twin'[h].tc = twin[h].tc /\ twin'[h].ack = twin[h].ack]_vars

\* C33 witness: the fourth false reply in a row has reset the acknowledged
\* flag that an acknowledgment at this instant, after the third, had set.
C33_Witness ==
  \A h \in Handlers :
    /\ twin[h].fc = FALL_FALSE_RESET + 1 /\ twin[h].tc = 0
    /\ ~twin[h].ack /\ ~twin[h].shown /\ twin[h].lastAt = now

\* ------------------------------------------------------------------------
\* After Stop and after unmount
\* ------------------------------------------------------------------------
\* The upload tile is mounted and was stopped, and the operator neither
\* starts nor uploads in this step.
StaysStopped ==
  /\ mode = "upload" /\ mounted /\ mounted'
  /\ stopped /\ stopped'

\* C34: once Stop was pressed on an upload tile, and until the operator
\* starts or uploads again, no step sets the intent flag or opens a
\* connection, whether the stop POST is pending or has settled.
C34_StoppedStaysStopped ==
  [][(StaysStopped /\ ~shouldRun) => ~shouldRun' /\ Opened = {}]_vars


\* This step resumes a startLive that was suspended at getUserMedia or at
\* video.play() and lets it run on past its awaits.
StartResumes ==
  \E k \in Starts : /\ starts[k].pc \in {"gum", "play"}
                    /\ starts'[k] = NoStart
                    /\ ~error'

\* This step leaves a chain scheduled that was not scheduled before.
LoopStarted == \E i \in Loops : loops[i].pc = "idle" /\ loops'[i].pc # "idle"

\* C35: a live tile is unmounted while its Start waits for the camera or for
\* playback; when the Start resumes it does not set the intent flag, open a
\* connection, start the loop, or write an entry with autoStart = true.
C35_LateStartIsInert ==
  [][(mode = "live" /\ ~mounted /\ StartResumes) =>
       /\ ~shouldRun'
       /\ Opened = {}
       /\ ~LoopStarted
       /\ ~(liveSession'.present /\ liveSession'.autoStart)]_vars

\* This step is the cleanup of the live tile's mount effect; this step is the
\* mount effect of a live tile whose entry does not ask to be resumed.
LiveUnmounts == mode = "live" /\ mounted /\ ~mounted'
LiveRemountsIdle ==
  /\ mode = "live" /\ ~mounted /\ mounted'
  /\ ~(liveSession.present /\ liveSession.autoStart)

TwiceNext ==
  \/ StartLiveClick
  \/ \E k \in Starts : GumResolves(k)
  \/ \E k \in Starts : PlayResolves(k)
  \/ \E k \in Starts : StartLiveFails(k)
  \/ StopLiveClick
  \/ UnmountLive
  \/ MountLive
  \/ \E k \in Starts : ResumeLiveTail(k)
  \/ \E s \in Sockets : SocketOpens(s)
  \/ \E s \in Sockets : SocketCloses(s)
  \/ NewInstance

SpecTwice == InitLive /\ [][TwiceNext]_vars

\* This step runs the tile's mount effects again.
Remounts == ~mounted /\ mounted'

\* C37: a tile whose last command from the operator was Stop does not resume
\* when it is mounted again: the mount finds no entry with autoStart = true,
\* opens no connection, suspends no resume and does not set the intent flag.
C37_StoppedTileStaysStopped ==
  [][(halted /\ Remounts) =>
       /\ ~(Entry.present /\ Entry.autoStart)
       /\ Opened = {}
       /\ UNCHANGED <<starts, shouldRun>>]_vars

\* ------------------------------------------------------------------------
\* Laws of the session registry
\* ------------------------------------------------------------------------
\* The entries a tile can set.
LiveEntries ==
  {[stream |-> m, videoUrl |-> 0, autoStart |-> a, present |-> TRUE] :
     m \in MediaIds, a \in BOOLEAN}
UploadEntries ==
  {[stream |-> 0, videoUrl |-> u, autoStart |-> a, present |-> TRUE] :
     u \in MediaIds, a \in BOOLEAN}

LiveLaws(r, c) ==
  /\ \A e \in LiveEntries : getLiveSession(setLiveSession(r, c, e), c) = e
  /\ ~getLiveSession(clearLiveSession(r, c), c).present
  /\ clearLiveSession(clearLiveSession(r, c), c) = clearLiveSession(r, c)
  /\ IF getLiveSession(r, c).present
       THEN /\ clearLiveSession(r, c).tracks = r.tracks \ {r.live[c].stream}
            /\ \A a \in BOOLEAN :
                 /\ setLiveAutoStart(r, c, a) = [r EXCEPT !.live[c].autoStart = a]
                 /\ getLiveSession(setLiveAutoStart(r, c, a), c).stream
                      = getLiveSession(r, c).stream
       ELSE /\ clearLiveSession(r, c) = r
            /\ \A a \in BOOLEAN : setLiveAutoStart(r, c, a) = r

UploadLaws(r, c) ==
  /\ \A e \in UploadEntries : getUploadSession(setUploadSession(r, c, e), c) = e
  /\ ~getUploadSession(clearUploadSession(r, c), c).present
  /\ clearUploadSession(clearUploadSession(r, c), c) = clearUploadSession(r, c)
  /\ IF getUploadSession(r, c).present
       THEN /\ clearUploadSession(r, c).urls = r.urls \ {r.upload[c].videoUrl}
            /\ \A a \in BOOLEAN :
                 /\ setUploadAutoStart(r, c, a) = [r EXCEPT !.upload[c].autoStart = a]
                 /\ getUploadSession(setUploadAutoStart(r, c, a), c).videoUrl
                      = getUploadSession(r, c).videoUrl
       ELSE /\ clearUploadSession(r, c) = r
            /\ \A a \in BOOLEAN : setUploadAutoStart(r, c, a) = r

\* C38: on every registry the tiles can produce and for every camera: get
\* after set returns the entry that was set; get after clear returns nothing;
\* a second clear changes nothing; clear releases the entry's medium when
\* there is an entry and changes nothing when there is none; the autoStart
\* mutator changes nothing when there is no entry, and changes only the flag
\* of an entry that exists.
C38_RegistryLaws ==
  \A c \in Cams : LiveLaws(Registry, c) /\ UploadLaws(Registry, c)

\* One camera has a live entry whose stream is live and an upload entry whose
\* URL is not revoked, another camera has neither.
C38_Witness ==
  \E c, d \in Cams :
    /\ liveSessions[c].present /\ liveSessions[c].stream \in tracks
    /\ uploadSessions[c].present /\ uploadSessions[c].videoUrl \in objectUrls
    /\ ~liveSessions[d].present /\ ~uploadSessions[d].present

\* ------------------------------------------------------------------------
\* The alert while it is visible
\* ------------------------------------------------------------------------
\* Visible-alert specification: either tile is started, streams without
\* failing sends, is answered with either value of fall_detected, the
\* operator acknowledges and stops, and two clock steps pass the cooldown.
ShownSteps == {4100}

ShownNext ==
  \/ StartLiveOnce
  \/ \E k \in Starts : GumResolves(k)
  \/ \E k \in Starts : PlayResolves(k)
  \/ UploadChoose
  \/ UploadDone
  \/ \E t \in Timers : UploadStartFires(t)
  \/ \E i \in Loops : RafFireOk(i)
  \/ \E i \in Loops : EncodeDoneOk(i)
  \/ \E s \in Sockets : Drain(s)
  \/ \E s \in Sockets : SocketOpens(s)
  \/ \E s \in Sockets, fall \in BOOLEAN : ServerReply(s, fall, {}, NoFrame)
  \/ AcknowledgeClick
  \/ AcknowledgeDone
  \/ SyncRefs
  \/ StopLiveClick
  \/ StopUploadClick
  \/ StopUploadDone
  \/ \E d \in ShownSteps : Tick(d)

SpecShown == Init /\ [][ShownNext]_vars

\* This step is the operator's Stop on the upload tile.
UploadStops == mode = "upload" /\ mounted /\ running /\ ~running' /\ halted'

\* C39: a reply that arrives while the alert is visible leaves the alert and
\* the time it was last shown as they are, whatever showAlertRef holds at
\* that moment; and the alert is hidden only by a completed acknowledgment
\* or, on the upload tile, by Stop.
C39_VisibleAlertIsStable ==
  [][/\ (showAlert /\ (TrueReply \/ FalseReply)) =>
          UNCHANGED <<lastPopupAt, showAlert, raisedAt>>
     /\ (showAlert /\ ~showAlert') => (Acknowledges \/ UploadStops)]_vars

\* A true reply has arrived while the alert was visible and showAlertRef did
\* not say so yet: the alert was raised at this instant by the reply before.
C39_Witness ==
  /\ showAlert /\ ~showAlertRef /\ ~acknowledgedFall
  /\ fallTrueCount > FALL_TRUE_THRESHOLD
  /\ lastPopupAt = now

\* ------------------------------------------------------------------------
\* The audio cue once the alert is hidden
\* ------------------------------------------------------------------------
\* The alert is hidden and FallAlert's effect has run on that.
CueHidden == ~showAlert /\ ~seenVisible

\* C40: once the alert is hidden and the effect has run, the looping audio
\* is not playing and has no play() pending, the timeout is cancelled, the
\* fallback interval is off and no oscillator sounds.
C40_SilentOnceHidden ==
  CueHidden =>
    /\ audio = "none"
    /\ audioDue = NoDue
    /\ ~beeper.on
    /\ beepLeft = 0
====
